---- MODULE Spec2Model ----
(***************************************************************************)
(* Model of layers/gpu/descriptor_validation/gpuav_descriptor_set.cpp:     *)
(* the descriptor identifier heap (DescriptorHeap) and the GPU-visible     *)
(* mirror of a descriptor set (DescriptorSet: layout buffer, versioned     *)
(* state snapshot, usage output buffer and its readback).                  *)
(***************************************************************************)
EXTENDS Integers, Sequences, FiniteSets, TLC

(***************************************************************************)
(* Bounds of the model.                                                    *)
(***************************************************************************)
\* Largest capacity a DescriptorHeap is constructed with.
MaxDescriptors == 3
\* Number of threads calling into the heap.
NumThreads == 2

\* SpecLayout: binding indices 0..LayoutMaxBinding, element counts 0..LayoutMaxCount.
LayoutMaxBinding == 3
LayoutMaxCount == 3
\* State objects made per descriptor set.
MaxObjects == 2
\* current_version_ is a uint32_t and wraps at 2^32; the model's counter wraps
\* at VersionModulus.
VersionModulus == 4
\* SpecFill: sets whose number of bindings plus number of elements is at most FillMaxSize.
FillMaxSize == 3

(***************************************************************************)
(* Program constants.                                                      *)
(***************************************************************************)
\* static constexpr uint32_t kBitsPerWord = 32;
kBitsPerWord == 32
\* sizeof(uint32_t)
SizeofU32 == 4

Threads == 1..NumThreads
\* Owner handles passed to NextId (VulkanTypedHandle values, opaque to the heap).
Handles == {"hA", "hB"}
NoThread == 0
NoHandle == "none"
\* A call that returned: NextId with its result, DeleteId with its id argument.
Returned(op, val) == [op |-> op, val |-> val]
NoEvent == Returned("none", 0)

VARIABLES
    \* ---- DescriptorHeap ----
    max_descriptors_,   \* const uint32_t max_descriptors_
    next_id_,           \* the scan cursor
    alloc_map_,         \* live identifier -> owning handle
    gpu_heap_state_,    \* the mapped bitmap: word index -> set of the bits set
    heap_buffer_,       \* the heap's AddressBuffer: [allocation, mapped]
    heap_lock,          \* holder of the heap's mutex, NoThread when free
    heap_alive,         \* FALSE once ~DescriptorHeap has run
    hpc,                \* per thread: position inside NextId / DeleteId
    hhandle,            \* per thread: NextId's handle argument
    hid,                \* per thread: NextId's result / DeleteId's id argument
    hevent,             \* history: the last call that returned: [op, val]
    issued,             \* history: id -> handles it was returned to since its last DeleteId
    heap_ops,           \* history: memory-service calls made on the heap's buffer
    \* ---- DescriptorSet ----
    bindings_,          \* the bindings, in the layout's order: [binding, type, descriptor_class, count]
    descriptors,        \* per binding, per element: [updated, res, active]
    current_version_,   \* std::atomic<uint32_t> current_version_
    layout_,            \* the layout AddressBuffer: [allocation, device_addr, maps, data, flushed]
    objs,               \* the State objects made so far: id -> [version, allocation, maps, data, flushed, destroyed]
    last_used_state_,   \* shared_ptr<State>: an object id, NullObj when empty
    output_state_,      \* shared_ptr<State>: an object id, NullObj when empty
    pass_refs,          \* State objects that validation passes hold a reference to
    set_lock,           \* holder of the descriptor set's mutex, NoThread when free
    spc,                \* per thread: position inside a DescriptorSet operation
    slocal,             \* locals of the operation that holds the lock
    sret,               \* history: the last DescriptorSet operation that returned: [op, val, clean]
    wpc,                \* the updating thread: "idle", or "written" before current_version_++
    ud,                 \* per thread: locals of UsedDescriptors
    create_sizes,       \* history: the sizes State buffers were requested with
    gcs_hist,           \* history of GetCurrentState: [prev, dirty, bumped]
    \* ---- the environment ----
    wild,               \* what a read through a null Sampler pointer yields in this run
    committed,          \* history: the descriptors as they were when current_version_ last changed
    expected,           \* history: `committed` as it was when GetCurrentState last read the version
    vma,                \* what the device memory service answers in this run: [created, addr]
    reports,            \* history: the number of InternalError calls made
    creates             \* history: the number of CreateBuffer calls made: [layout, state]

heap_vars == <<max_descriptors_, next_id_, alloc_map_, gpu_heap_state_, heap_buffer_,
               heap_lock, heap_alive, hpc, hhandle, hid, hevent, issued, heap_ops>>

set_vars == <<bindings_, descriptors, current_version_, layout_, objs, last_used_state_,
              output_state_, pass_refs, set_lock, spc, slocal, sret, wpc, ud,
              create_sizes, gcs_hist>>

service_vars == <<vma, reports, creates>>

aux_vars == <<wild, committed, expected, service_vars>>

vars == <<heap_vars, set_vars, aux_vars>>

(***************************************************************************)
(* BitBufferSize: bytes to hold a 32 bit aligned array of num_bits bits.   *)
(* (x + 31) & ~31 rounds x up to a multiple of 32.                         *)
(***************************************************************************)
BitBufferSize(num_bits) ==
    ((((num_bits + (kBitsPerWord - 1)) \div kBitsPerWord) * kBitsPerWord) \div kBitsPerWord)
        * SizeofU32

\* A uint32_t word is the set of the positions of its 1 bits.
ZeroWord == {}
\* memset(gpu_heap_state_, 0, size): size / 4 words, all zero.
ZeroedWords(bytes) == [w \in 0..((bytes \div SizeofU32) - 1) |-> ZeroWord]

\* gpu_heap_state_[id / 32] |= 1u << (id & 31)
SetBit(words, id) ==
    [words EXCEPT ![id \div 32] = @ \cup {id % 32}]

\* Mutant of ClearBit: the complement is left out, &= (1u << (id & 31)).
ClearBitNoComplement(words, id) ==
    [words EXCEPT ![id \div 32] = @ \cap {id % 32}]

\* gpu_heap_state_[id / 32] &= ~(1u << (id & 31))
ClearBit(words, id) ==
    [words EXCEPT ![id \div 32] = @ \ {id % 32}]

\* Whether bit id of the bitmap is set, as device code reads it.
TestBit(words, id) ==
    /\ (id \div 32) \in DOMAIN words
    /\ (id % 32) \in words[id \div 32]

\* alloc_map_[id] = handle
MapInsert(m, id, h) ==
    [k \in (DOMAIN m) \cup {id} |-> IF k = id THEN h ELSE m[k]]

\* alloc_map_.erase(id)
MapErase(m, id) ==
    [k \in (DOMAIN m) \ {id} |-> m[k]]

EmptyMap == [k \in {} |-> NoHandle]

(***************************************************************************)
(* The do/while scan of NextId, from cursor `next` over the live keys.     *)
(*   do { result = next_id_++; if (next_id_ > max) next_id_ = 1; }         *)
(*   while (alloc_map_.count(result) > 0);                                 *)
(* Yields the result, the cursor left behind and the candidates examined.  *)
(* `fuel` stops the unfolding where the code would spin forever.           *)
(***************************************************************************)
RECURSIVE ScanFrom(_, _, _, _, _)
ScanFrom(next, live, max, examined, fuel) ==
    LET result == next
        bumped == next + 1
        cursor == IF bumped > max THEN 1 ELSE bumped
    IN  IF result \in live /\ fuel > 0
        THEN ScanFrom(cursor, live, max, examined + 1, fuel - 1)
        ELSE [result |-> result, next_id |-> cursor, examined |-> examined + 1,
              spins |-> result \in live]

\* Mutant of Scan: the scan starts at 1 whatever the cursor.
ScanFromOne(next, live, max) == ScanFrom(1, live, max, 0, 2 * max + 2)

\* Mutant of Scan: the loop never tests alloc_map_.count(result).
ScanNoLiveTest(next, live, max) == ScanFrom(next, {}, max, 0, 2 * max + 2)

Scan(next, live, max) == ScanFrom(next, live, max, 0, 2 * max + 2)

\* Mutant of HeapFull: off by one, full with one identifier still free.
HeapFullOffByOne(m, max) == Cardinality(DOMAIN m) + 1 >= max

\* if (alloc_map_.size() >= max_descriptors_) return 0;
HeapFull(m, max) == Cardinality(DOMAIN m) >= max

(***************************************************************************)
(* DescriptorHeap::DescriptorHeap(gpuav, max_descriptors, loc)             *)
(***************************************************************************)
HeapConstructed(max) ==
    /\ max_descriptors_ = max
    /\ next_id_ = 1
    /\ alloc_map_ = EmptyMap
    /\ IF max = 0
       THEN /\ gpu_heap_state_ = << >>
            /\ heap_buffer_ = [allocation |-> FALSE, mapped |-> FALSE]
            /\ heap_ops = {}
       ELSE /\ gpu_heap_state_ = ZeroedWords(BitBufferSize(max + 1))
            /\ heap_buffer_ = [allocation |-> TRUE, mapped |-> TRUE]
            /\ heap_ops = {"create", "map", "write"}

HeapInit ==
    /\ \E max \in 0..MaxDescriptors : HeapConstructed(max)
    /\ heap_lock = NoThread
    /\ heap_alive = TRUE
    /\ hpc = [t \in Threads |-> "idle"]
    /\ hhandle = [t \in Threads |-> NoHandle]
    /\ hid = [t \in Threads |-> 0]
    /\ hevent = NoEvent
    /\ issued = [i \in 0..MaxDescriptors |-> << >>]

(***************************************************************************)
(* DescriptorHeap::NextId(handle)                                          *)
(***************************************************************************)
\* Entry: the unlocked test of max_descriptors_, then on to the lock.
NextIdCall(t, h) ==
    /\ heap_alive
    /\ hpc[t] = "idle"
    /\ IF max_descriptors_ = 0
       THEN /\ hevent' = Returned("NextId", 0)
            /\ UNCHANGED <<hpc, hhandle>>
       ELSE /\ hpc' = [hpc EXCEPT ![t] = "next_lock"]
            /\ hhandle' = [hhandle EXCEPT ![t] = h]
            /\ UNCHANGED hevent
    /\ UNCHANGED <<max_descriptors_, next_id_, alloc_map_, gpu_heap_state_, heap_buffer_,
                   heap_lock, heap_alive, hid, issued, heap_ops>>

\* Whether the mutex can be taken by t.
CanLock(lock, t) == lock = NoThread

\* auto guard = Lock(); the capacity test; the scan; alloc_map_[result] = handle.
NextIdLocked(t) ==
    /\ hpc[t] = "next_lock"
    /\ CanLock(heap_lock, t)
    /\ IF HeapFull(alloc_map_, max_descriptors_)
       THEN /\ hevent' = Returned("NextId", 0)
            /\ hpc' = [hpc EXCEPT ![t] = "idle"]
            /\ hhandle' = [hhandle EXCEPT ![t] = NoHandle]
            /\ UNCHANGED <<next_id_, alloc_map_, heap_lock, hid>>
       ELSE LET s == Scan(next_id_, DOMAIN alloc_map_, max_descriptors_)
            IN  /\ ~s.spins
                /\ next_id_' = s.next_id
                /\ alloc_map_' = MapInsert(alloc_map_, s.result, hhandle[t])
                /\ hid' = [hid EXCEPT ![t] = s.result]
                /\ heap_lock' = t
                /\ hpc' = [hpc EXCEPT ![t] = "next_setbit"]
                /\ UNCHANGED <<hevent, hhandle>>
    /\ UNCHANGED <<max_descriptors_, gpu_heap_state_, heap_buffer_, heap_alive,
                   issued, heap_ops>>

\* gpu_heap_state_[result / 32] |= 1u << (result & 31); return result; (guard released)
NextIdSetBit(t) ==
    /\ hpc[t] = "next_setbit"
    /\ gpu_heap_state_' = SetBit(gpu_heap_state_, hid[t])
    /\ heap_ops' = heap_ops \cup {"write"}
    /\ hevent' = Returned("NextId", hid[t])
    /\ issued' = [issued EXCEPT ![hid[t]] = Append(@, hhandle[t])]
    /\ heap_lock' = IF heap_lock = t THEN NoThread ELSE heap_lock
    /\ hpc' = [hpc EXCEPT ![t] = "idle"]
    /\ hhandle' = [hhandle EXCEPT ![t] = NoHandle]
    /\ hid' = [hid EXCEPT ![t] = 0]
    /\ UNCHANGED <<max_descriptors_, next_id_, alloc_map_, heap_buffer_, heap_alive>>

(***************************************************************************)
(* DescriptorHeap::DeleteId(id)                                            *)
(***************************************************************************)
DeleteIdCall(t, id) ==
    /\ heap_alive
    /\ hpc[t] = "idle"
    /\ IF max_descriptors_ > 0
       THEN /\ hpc' = [hpc EXCEPT ![t] = "del_lock"]
            /\ hid' = [hid EXCEPT ![t] = id]
            /\ UNCHANGED hevent
       ELSE /\ hevent' = Returned("DeleteId", id)
            /\ UNCHANGED <<hpc, hid>>
    /\ UNCHANGED <<max_descriptors_, next_id_, alloc_map_, gpu_heap_state_, heap_buffer_,
                   heap_lock, heap_alive, hhandle, issued, heap_ops>>

\* auto guard = Lock(); gpu_heap_state_[id / 32] &= ~(1u << (id & 31));
DeleteIdLocked(t) ==
    /\ hpc[t] = "del_lock"
    /\ CanLock(heap_lock, t)
    /\ heap_lock' = t
    /\ gpu_heap_state_' = ClearBit(gpu_heap_state_, hid[t])
    /\ heap_ops' = heap_ops \cup {"write"}
    /\ hpc' = [hpc EXCEPT ![t] = "del_erase"]
    /\ UNCHANGED <<max_descriptors_, next_id_, alloc_map_, heap_buffer_, heap_alive,
                   hhandle, hid, hevent, issued>>

\* alloc_map_.erase(id); (guard released)
DeleteIdErase(t) ==
    /\ hpc[t] = "del_erase"
    /\ alloc_map_' = MapErase(alloc_map_, hid[t])
    /\ issued' = [issued EXCEPT ![hid[t]] = << >>]
    /\ hevent' = Returned("DeleteId", hid[t])
    /\ heap_lock' = IF heap_lock = t THEN NoThread ELSE heap_lock
    /\ hpc' = [hpc EXCEPT ![t] = "idle"]
    /\ hid' = [hid EXCEPT ![t] = 0]
    /\ UNCHANGED <<max_descriptors_, next_id_, gpu_heap_state_, heap_buffer_, heap_alive,
                   hhandle, heap_ops>>

\* Mutant of HeapDestroy: the test of max_descriptors_ is left out.
HeapDestroyUnguarded ==
    /\ heap_alive
    /\ \A t \in Threads : hpc[t] = "idle"
    /\ heap_alive' = FALSE
    /\ heap_buffer_' = [allocation |-> FALSE, mapped |-> FALSE]
    /\ heap_ops' = heap_ops \cup {"unmap", "destroy"}
    /\ gpu_heap_state_' = << >>
    /\ UNCHANGED <<max_descriptors_, next_id_, alloc_map_, heap_lock, hpc, hhandle, hid,
                   hevent, issued>>

(***************************************************************************)
(* DescriptorHeap::~DescriptorHeap(), once no call is in flight.           *)
(***************************************************************************)
HeapDestroy ==
    /\ heap_alive
    /\ \A t \in Threads : hpc[t] = "idle"
    /\ heap_alive' = FALSE
    /\ IF max_descriptors_ > 0
       THEN /\ heap_buffer_' = [allocation |-> FALSE, mapped |-> FALSE]
            /\ heap_ops' = heap_ops \cup {"unmap", "destroy"}
            /\ gpu_heap_state_' = << >>
       ELSE UNCHANGED <<heap_buffer_, heap_ops, gpu_heap_state_>>
    /\ UNCHANGED <<max_descriptors_, next_id_, alloc_map_, heap_lock, hpc, hhandle, hid,
                   hevent, issued>>

HeapNext ==
    \/ \E t \in Threads, h \in Handles : NextIdCall(t, h)
    \/ \E t \in Threads : NextIdLocked(t)
    \/ \E t \in Threads : NextIdSetBit(t)
    \/ \E t \in Threads, id \in 0..max_descriptors_ : DeleteIdCall(t, id)
    \/ \E t \in Threads : DeleteIdLocked(t)
    \/ \E t \in Threads : DeleteIdErase(t)
    \/ HeapDestroy

\* The handle the calls of SpecRotate pass.
RotateHandles == {"hA"}

\* The heap's operations with one handle: which handle owns an identifier
\* plays no part in the order identifiers are issued in.
RotateNext ==
    \/ \E t \in Threads, h \in RotateHandles : NextIdCall(t, h)
    \/ \E t \in Threads : NextIdLocked(t)
    \/ \E t \in Threads : NextIdSetBit(t)
    \/ \E t \in Threads, id \in 0..max_descriptors_ : DeleteIdCall(t, id)
    \/ \E t \in Threads : DeleteIdLocked(t)
    \/ \E t \in Threads : DeleteIdErase(t)

(***************************************************************************)
(* DescriptorSet: the data.                                                *)
(***************************************************************************)
\* vvl::DescriptorClass
Classes == {"GeneralBuffer", "TexelBuffer", "Image", "PlainSampler", "ImageSampler",
            "AccelerationStructure", "InlineUniform", "Mutable", "NoDescriptorClass"}

\* VkDescriptorType, as far as the code tells types apart.
InlineType == "VK_DESCRIPTOR_TYPE_INLINE_UNIFORM_BLOCK_EXT"
OtherType == "VK_DESCRIPTOR_TYPE_OTHER"

\* One entry of bindings_.
Binding(b, ty, dc, n) == [binding |-> b, type |-> ty, descriptor_class |-> dc, count |-> n]

NullObj == 0
NoResource == "null"

\* An element no update has written: updated[di] is false.
UnwrittenElement == [updated |-> FALSE, res |-> NoResource, active |-> "NoDescriptorClass"]

\* The descriptors of a freshly allocated set: none updated.
FreshDescriptors(bs) ==
    [i \in 1..Len(bs) |-> [e \in 1..bs[i].count |-> UnwrittenElement]]

\* An AddressBuffer no CreateBuffer has filled in.
NullBuffer == [allocation |-> FALSE, device_addr |-> 0, maps |-> 0, flushed |-> FALSE,
               data |-> << >>]

\* The device memory service when nothing fails: vmaCreateBuffer succeeds and
\* the buffer's device address is resolved.
VmaOk == [created |-> TRUE, addr |-> 1]

\* The answers of the device memory service: vmaCreateBuffer succeeds or not,
\* and the address helper returns 0 or an address.
VmaOutcomes == [created : BOOLEAN, addr : {0, 1}]

\* AddressBuffer::CreateBuffer, the handles: allocation is set when
\* vmaCreateBuffer succeeded.  Nothing is returned to the caller.
CreateBuffer(buf) == [buf EXCEPT !.allocation = vma.created]

\* gpuav.GetBufferDeviceAddressHelper(buffer)
GetBufferDeviceAddressHelper == vma.addr

\* AddressBuffer::CreateBuffer, the InternalError calls it makes: one when
\* vmaCreateBuffer failed, and one when device_addr == 0.
CreateBufferReports ==
    (IF vma.created THEN 0 ELSE 1) + (IF GetBufferDeviceAddressHelper = 0 THEN 1 ELSE 0)

\* Mutant of UnmapMemory: the unmap is left out.
UnmapMemorySkipped(buf) == buf

\* AddressBuffer::UnmapMemory: vmaUnmapMemory takes back one map.
UnmapMemory(buf) == [buf EXCEPT !.maps = @ - 1]

\* Mutant of FlushAllocation: the flush is left out.
FlushAllocationSkipped(buf) == buf

\* AddressBuffer::FlushAllocation: the host's writes become visible to the device.
FlushAllocation(buf) == [buf EXCEPT !.flushed = TRUE]

\* A DescriptorSet operation that returned, with its result; clean tells that
\* no update took a step between the GetCurrentState call before it and this one.
SetReturned(op, val, clean) == [op |-> op, val |-> val, clean |-> clean]
NoSetEvent == SetReturned("none", 0, FALSE)
NoLocals == [cur_version |-> 0, next_state |-> NullObj, descriptor_count |-> 0, size |-> 0,
             clean |-> FALSE, after_update |-> FALSE]
NoUsedLocals == [pc |-> "idle", obj |-> NullObj, shader_set |-> 0, invalidated |-> FALSE]
\* No GetCurrentState call yet.
NoHistory == [prev |-> NullObj, dirty |-> FALSE, bumped |-> FALSE]

(***************************************************************************)
(* DescriptorSet::GetLayoutState                                           *)
(***************************************************************************)
\* sizeof(glsl::BindingLayout): two uint32_t, {count, state_start}.
SizeofBindingLayout == 8

\* GetLayout()->GetMaxBinding(): the highest binding index of the layout.
GetMaxBinding(bs) ==
    CHOOSE m \in {bs[i].binding : i \in 1..Len(bs)} :
        \A i \in 1..Len(bs) : bs[i].binding <= m

\* uint32_t num_bindings = (GetBindingCount() > 0) ? GetLayout()->GetMaxBinding() + 1 : 0;
NumBindings(bs) == IF Len(bs) > 0 THEN GetMaxBinding(bs) + 1 ELSE 0

\* buffer_info.size = (1 + num_bindings) * sizeof(glsl::BindingLayout);
LayoutBufferSize(num_bindings) == (1 + num_bindings) * SizeofBindingLayout

BindingLayout(count, state_start) == [count |-> count, state_start |-> state_start]

\* memset(layout_data, 0, size); layout_data[0] = {num_bindings, 0};
LayoutHeader(size, num_bindings) ==
    [k \in 0..((size \div SizeofBindingLayout) - 1) |->
        IF k = 0 THEN BindingLayout(num_bindings, 0) ELSE BindingLayout(0, 0)]

\* Mutant of LayoutElements: an inline uniform block contributes its declared size.
LayoutElementsNoInline(b) == b.count

\* What one binding contributes to state_start: 1 for an inline uniform block,
\* binding->count otherwise.
LayoutElements(b) == IF b.type = InlineType THEN 1 ELSE b.count

\* for (i = 0; i < bindings_.size(); i++) layout_data[binding->binding + 1] = {n, state_start};
RECURSIVE LayoutFill(_, _, _, _)
LayoutFill(data, bs, i, state_start) ==
    IF i > Len(bs)
    THEN data
    ELSE LET b == bs[i]
             n == LayoutElements(b)
         IN  LayoutFill([data EXCEPT ![b.binding + 1] = BindingLayout(n, state_start)],
                        bs, i + 1, state_start + n)

\* auto guard = Lock(); the memoization test; CreateBuffer.
GetLayoutStateCall(t) ==
    /\ spc[t] = "idle"
    /\ CanLock(set_lock, t)
    /\ IF layout_.device_addr # 0
       THEN /\ sret' = SetReturned("GetLayoutState", layout_.device_addr, FALSE)
            /\ UNCHANGED <<layout_, set_lock, spc, slocal>>
       ELSE LET num_bindings == NumBindings(bindings_)
            IN  /\ layout_' = [CreateBuffer(NullBuffer) EXCEPT
                                  !.device_addr = GetBufferDeviceAddressHelper]
                /\ slocal' = [NoLocals EXCEPT !.descriptor_count = num_bindings,
                                              !.size = LayoutBufferSize(num_bindings)]
                /\ set_lock' = t
                /\ spc' = [spc EXCEPT ![t] = "gls_fill"]
                /\ UNCHANGED sret
    /\ UNCHANGED <<bindings_, descriptors, current_version_, objs, last_used_state_,
                   output_state_, pass_refs, wpc, ud, create_sizes, gcs_hist>>

\* MapMemory; memset; layout_data[0]; the loop over bindings_.
GetLayoutStateFill(t) ==
    /\ spc[t] = "gls_fill"
    /\ layout_' = [layout_ EXCEPT
                      !.maps = @ + 1,
                      !.data = LayoutFill(LayoutHeader(slocal.size, slocal.descriptor_count),
                                          bindings_, 1, 0)]
    /\ spc' = [spc EXCEPT ![t] = "gls_flush"]
    /\ UNCHANGED <<bindings_, descriptors, current_version_, objs, last_used_state_,
                   output_state_, pass_refs, set_lock, slocal, sret, wpc, ud, create_sizes,
                   gcs_hist>>

\* FlushAllocation; UnmapMemory; return layout_.device_addr; (guard released)
GetLayoutStateDone(t) ==
    /\ spc[t] = "gls_flush"
    /\ layout_' = UnmapMemory(FlushAllocation(layout_))
    /\ sret' = SetReturned("GetLayoutState", layout_.device_addr, FALSE)
    /\ set_lock' = IF set_lock = t THEN NoThread ELSE set_lock
    /\ slocal' = NoLocals
    /\ spc' = [spc EXCEPT ![t] = "idle"]
    /\ UNCHANGED <<bindings_, descriptors, current_version_, objs, last_used_state_,
                   output_state_, pass_refs, wpc, ud, create_sizes, gcs_hist>>

(***************************************************************************)
(* Descriptor records: glsl::DescriptorState and the GetInData overloads.  *)
(***************************************************************************)
\* glsl::kDebugInputBindlessSkipId (0x00FFFFFF)
kDebugInputBindlessSkipId == 16777215
\* vvl::kU32Max (0xFFFFFFFF), written as the 32-bit pattern of -1.
kU32Max == -1

\* glsl::DescriptorState(dc, id, extra_data)
DescriptorState(dc, id, extra_data) == [class |-> dc, id |-> id, extra_data |-> extra_data]

\* The extent a record gets when the constructor is given none.
DefaultExtraData == 0

\* glsl::DescriptorState(): the default record, all fields zero.
DescriptorStateDefault == [class |-> "NoDescriptorClass", id |-> 0, extra_data |-> 0]

\* A slot of a mapped buffer nothing was written to.
Uninitialized == [class |-> "uninitialized", id |-> 0, extra_data |-> 0]

\* The resource objects descriptors are written with.
Resources == {"r1", "r2"}

\* state->id: the DescriptorId of a resource object.
ResourceId(r) == CASE r = "r1" -> 1 [] r = "r2" -> 2

\* buffer_state->create_info.size
BufferSize(r) == CASE r = "r1" -> 8 [] r = "r2" -> 16

\* desc.GetEffectiveRange(): the descriptor's range, or what is left of the buffer
\* after its offset. r1 is bound with a range of 4 of its 8 bytes, r2 as a whole.
EffectiveRange(r) == CASE r = "r1" -> 4 [] r = "r2" -> 16

\* buffer_view_state->Size() / vkuFormatElementSize(format): r1 holds 8 bytes of a
\* 4 byte format, r2 16 bytes of a 2 byte format.
TexelCount(r) == CASE r = "r1" -> 8 \div 4 [] r = "r2" -> 16 \div 2

\* GetInData(const vvl::BufferDescriptor &)
GetInDataBuffer(e) ==
    IF e.res = NoResource
    THEN DescriptorState("GeneralBuffer", kDebugInputBindlessSkipId, kU32Max)
    ELSE DescriptorState("GeneralBuffer", ResourceId(e.res), EffectiveRange(e.res))

\* GetInData(const vvl::TexelDescriptor &)
GetInDataTexel(e) ==
    IF e.res = NoResource
    THEN DescriptorState("TexelBuffer", kDebugInputBindlessSkipId, kU32Max)
    ELSE DescriptorState("TexelBuffer", ResourceId(e.res), TexelCount(e.res))

\* GetInData(const vvl::ImageDescriptor &)
GetInDataImage(e) ==
    DescriptorState("Image",
                    IF e.res # NoResource THEN ResourceId(e.res) ELSE kDebugInputBindlessSkipId,
                    DefaultExtraData)

\* sampler_state->id with no test of sampler_state: through a null pointer the
\* read yields whatever the run yields.
SamplerId(e) == IF e.res # NoResource THEN ResourceId(e.res) ELSE wild

\* GetInData(const vvl::SamplerDescriptor &)
GetInDataSampler(e) ==
    DescriptorState("PlainSampler", SamplerId(e), DefaultExtraData)

\* GetInData(const vvl::ImageSamplerDescriptor &)
GetInDataImageSampler(e) ==
    DescriptorState("ImageSampler",
                    IF e.res # NoResource THEN ResourceId(e.res) ELSE kDebugInputBindlessSkipId,
                    IF e.res # NoResource THEN ResourceId(e.res) ELSE 0)

\* GetInData(const vvl::AccelerationStructureDescriptor &), KHR and NV alike.
GetInDataAccelerationStructure(e) ==
    DescriptorState("AccelerationStructure",
                    IF e.res # NoResource THEN ResourceId(e.res) ELSE kDebugInputBindlessSkipId,
                    DefaultExtraData)

\* GetInData(const vvl::MutableDescriptor &): the switch on desc.ActiveClass().
GetInDataMutable(e) ==
    CASE e.active = "GeneralBuffer" ->
            IF e.res = NoResource
            THEN DescriptorState(e.active, kDebugInputBindlessSkipId, kU32Max)
            ELSE DescriptorState(e.active, ResourceId(e.res), BufferSize(e.res))
      [] e.active = "TexelBuffer" ->
            IF e.res = NoResource
            THEN DescriptorState(e.active, kDebugInputBindlessSkipId, kU32Max)
            ELSE DescriptorState(e.active, ResourceId(e.res), TexelCount(e.res))
      [] e.active = "PlainSampler" ->
            DescriptorState(e.active, SamplerId(e), DefaultExtraData)
      [] e.active = "ImageSampler" ->
            DescriptorState(e.active,
                IF e.res # NoResource THEN ResourceId(e.res) ELSE kDebugInputBindlessSkipId,
                IF e.res # NoResource THEN ResourceId(e.res) ELSE 0)
      [] e.active = "Image" ->
            DescriptorState(e.active,
                IF e.res # NoResource THEN ResourceId(e.res) ELSE kDebugInputBindlessSkipId,
                DefaultExtraData)
      [] e.active = "AccelerationStructure" ->
            DescriptorState(e.active,
                IF e.res # NoResource THEN ResourceId(e.res) ELSE kDebugInputBindlessSkipId,
                DefaultExtraData)
      [] OTHER -> DescriptorState(e.active, kDebugInputBindlessSkipId, kU32Max)

\* The GetInData overload the binding class dc selects.
GetInData(dc, e) ==
    CASE dc = "GeneralBuffer" -> GetInDataBuffer(e)
      [] dc = "TexelBuffer" -> GetInDataTexel(e)
      [] dc = "Image" -> GetInDataImage(e)
      [] dc = "PlainSampler" -> GetInDataSampler(e)
      [] dc = "ImageSampler" -> GetInDataImageSampler(e)
      [] dc = "AccelerationStructure" -> GetInDataAccelerationStructure(e)
      [] dc = "Mutable" -> GetInDataMutable(e)

\* data[index] = rec, where the buffer has that slot.
WriteSlot(data, index, rec) ==
    IF index \in DOMAIN data THEN [data EXCEPT ![index] = rec] ELSE data

\* Mutant of ElementRecord: an element not updated is given the skip record of its class.
ElementRecordSkipUnwritten(dc, e) ==
    IF ~e.updated
    THEN DescriptorState(dc, kDebugInputBindlessSkipId, kU32Max)
    ELSE GetInData(dc, e)

\* The body of FillBindingInData's loop: the record of one element.
ElementRecord(dc, e) ==
    IF ~e.updated THEN DescriptorStateDefault ELSE GetInData(dc, e)

\* template FillBindingInData: for (di = 0; di < binding.count; di++) data[index++] = ...
\* st is [data, index].
RECURSIVE FillBindingInData(_, _, _, _)
FillBindingInData(b, elems, di, st) ==
    IF di > b.count
    THEN st
    ELSE FillBindingInData(b, elems, di + 1,
            [data |-> WriteSlot(st.data, st.index, ElementRecord(b.descriptor_class, elems[di])),
             index |-> st.index + 1])

\* FillBindingInData<vvl::InlineUniformBinding>: one record for the whole block.
FillInlineUniformInData(st) ==
    [data |-> WriteSlot(st.data, st.index,
                        DescriptorState("InlineUniform", kDebugInputBindlessSkipId, kU32Max)),
     index |-> st.index + 1]

\* The switch of GetCurrentState on binding.descriptor_class.
FillOneBinding(b, elems, st) ==
    CASE b.descriptor_class = "InlineUniform" -> FillInlineUniformInData(st)
      [] b.descriptor_class = "NoDescriptorClass" -> st
      [] OTHER -> FillBindingInData(b, elems, 1, st)

\* for (i = 0; i < bindings_.size(); i++) switch (binding.descriptor_class) ...
RECURSIVE FillAllBindings(_, _, _, _)
FillAllBindings(bs, descs, i, st) ==
    IF i > Len(bs)
    THEN st
    ELSE FillAllBindings(bs, descs, i + 1, FillOneBinding(bs[i], descs[i], st))

\* What one binding adds to descriptor_count.
CountedElements(b) == IF b.type = InlineType THEN 1 ELSE b.count

RECURSIVE SumCounted(_, _)
SumCounted(bs, i) ==
    IF i > Len(bs) THEN 0 ELSE CountedElements(bs[i]) + SumCounted(bs, i + 1)

\* GetCurrentState: descriptor_count, summed when GetBindingCount() > 0.
DescriptorCount(bs) == IF Len(bs) > 0 THEN SumCounted(bs, 1) ELSE 0

\* Mutant of OutputDescriptorCount: the bindings are counted, not their elements.
OutputBindingCount(bs) == Len(bs)

\* GetOutputState: descriptor_count, summed over all bindings.
OutputDescriptorCount(bs) == SumCounted(bs, 1)

\* sizeof(glsl::DescriptorState): {class_tag, primary_id, extent}, three uint32_t.
SizeofDescriptorState == 12

\* Mutant of IsEmptySet: the no-descriptors case is never taken.
IsEmptySetNever(descriptor_count) == FALSE

\* if (descriptor_count == 0): the no descriptors case.
IsEmptySet(descriptor_count) == descriptor_count = 0

\* Mutant of CacheHit: the cached state is never reused.
CacheHitNever(last, cur_version) == FALSE

\* if (last_used_state_ && last_used_state_->version == cur_version)
CacheHit(last, cur_version) ==
    /\ last # NullObj
    /\ objs[last].version = cur_version

\* std::make_shared<State>(VkHandle(), cur_version, gpuav): no buffer yet.
NewState(version) ==
    [version |-> version, allocation |-> FALSE, maps |-> 0, flushed |-> FALSE,
     destroyed |-> FALSE, data |-> << >>]

\* State::~State: buffer.DestroyBuffer(); the memory is gone.
DestroyedState(o) ==
    [version |-> o.version, allocation |-> FALSE, maps |-> 0, flushed |-> FALSE,
     destroyed |-> TRUE, data |-> << >>]

\* Mutant of ReleaseUnless: the State is destroyed whoever still holds it.
ReleaseAlways(os, dropped, holders) ==
    IF dropped = NullObj THEN os ELSE [os EXCEPT ![dropped] = DestroyedState(@)]

\* The State objects still referenced after `dropped` lost one reference: the
\* last shared_ptr going away runs ~State.
ReleaseUnless(os, dropped, holders) ==
    IF dropped = NullObj \/ dropped \in holders
    THEN os
    ELSE [os EXCEPT ![dropped] = DestroyedState(@)]

\* A mapped buffer of n slots, nothing written yet.
UninitializedSlots(n) == [k \in 0..(n - 1) |-> Uninitialized]

(***************************************************************************)
(* DescriptorSet::GetCurrentState                                          *)
(***************************************************************************)
\* History: no update has taken a step since the previous GetCurrentState call
\* read the version.
GcsClean == gcs_hist.prev # NullObj /\ ~gcs_hist.dirty

\* History: an update has completed since the previous GetCurrentState call
\* read the version.
GcsAfterUpdate == gcs_hist.prev # NullObj /\ gcs_hist.bumped

\* auto guard = Lock(); the version test; make_shared<State>; descriptor_count;
\* the no-descriptors return; CreateBuffer.
GetCurrentStateCall(t) ==
    /\ spc[t] = "idle"
    /\ CanLock(set_lock, t)
    /\ LET cur_version == current_version_
           hist == [gcs_hist EXCEPT !.dirty = FALSE, !.bumped = FALSE]
       IN  IF CacheHit(last_used_state_, cur_version)
           THEN /\ sret' = SetReturned("GetCurrentState", last_used_state_, GcsClean)
                /\ pass_refs' = pass_refs \cup {last_used_state_}
                /\ gcs_hist' = [hist EXCEPT !.prev = last_used_state_]
                /\ slocal' = NoLocals
                /\ UNCHANGED <<objs, last_used_state_, set_lock, spc, create_sizes>>
           ELSE LET next_state == Len(objs) + 1
                    descriptor_count == DescriptorCount(bindings_)
                    made == Append(objs, NewState(cur_version))
                IN  /\ Len(objs) < MaxObjects
                    /\ IF IsEmptySet(descriptor_count)
                       THEN /\ last_used_state_' = next_state
                            /\ objs' = ReleaseUnless(made, last_used_state_,
                                                     pass_refs \cup {output_state_})
                            /\ sret' = SetReturned("GetCurrentState", next_state, GcsClean)
                            /\ pass_refs' = pass_refs \cup {next_state}
                            /\ gcs_hist' = [hist EXCEPT !.prev = next_state]
                            /\ slocal' = NoLocals
                            /\ UNCHANGED <<set_lock, spc, create_sizes>>
                       ELSE LET size == descriptor_count * SizeofDescriptorState
                            IN  /\ objs' = [made EXCEPT ![next_state] = CreateBuffer(@)]
                                /\ create_sizes' = create_sizes \cup {size}
                                /\ slocal' = [cur_version |-> cur_version,
                                              next_state |-> next_state,
                                              descriptor_count |-> descriptor_count,
                                              size |-> size,
                                              clean |-> GcsClean,
                                              after_update |-> GcsAfterUpdate]
                                /\ gcs_hist' = hist
                                /\ set_lock' = t
                                /\ spc' = [spc EXCEPT ![t] = "gcs_fill"]
                                /\ UNCHANGED <<last_used_state_, sret, pass_refs>>
    /\ UNCHANGED <<bindings_, descriptors, current_version_, layout_, output_state_, wpc, ud>>

\* MapMemory; the loop over bindings_ that fills the records.
GetCurrentStateFill(t) ==
    /\ spc[t] = "gcs_fill"
    /\ LET o == slocal.next_state
           filled == FillAllBindings(bindings_, descriptors, 1,
                        [data |-> UninitializedSlots(slocal.size \div SizeofDescriptorState),
                         index |-> 0])
       IN  objs' = [objs EXCEPT ![o].maps = @ + 1, ![o].data = filled.data]
    /\ spc' = [spc EXCEPT ![t] = "gcs_flush"]
    /\ UNCHANGED <<bindings_, descriptors, current_version_, layout_, last_used_state_,
                   output_state_, pass_refs, set_lock, slocal, sret, wpc, ud, create_sizes,
                   gcs_hist>>

\* FlushAllocation
GetCurrentStateFlush(t) ==
    /\ spc[t] = "gcs_flush"
    /\ objs' = [objs EXCEPT ![slocal.next_state] = FlushAllocation(@)]
    /\ spc' = [spc EXCEPT ![t] = "gcs_unmap"]
    /\ UNCHANGED <<bindings_, descriptors, current_version_, layout_, last_used_state_,
                   output_state_, pass_refs, set_lock, slocal, sret, wpc, ud, create_sizes,
                   gcs_hist>>

\* UnmapMemory; last_used_state_ = next_state; return next_state; (guard released)
GetCurrentStateDone(t) ==
    /\ spc[t] = "gcs_unmap"
    /\ LET o == slocal.next_state
       IN  /\ objs' = ReleaseUnless([objs EXCEPT ![o] = UnmapMemory(@)], last_used_state_,
                                    pass_refs \cup {output_state_})
           /\ last_used_state_' = o
           /\ sret' = SetReturned("GetCurrentState", o, slocal.clean)
           /\ pass_refs' = pass_refs \cup {o}
           /\ gcs_hist' = [gcs_hist EXCEPT !.prev = o]
    /\ set_lock' = IF set_lock = t THEN NoThread ELSE set_lock
    /\ spc' = [spc EXCEPT ![t] = "idle"]
    /\ slocal' = NoLocals
    /\ UNCHANGED <<bindings_, descriptors, current_version_, layout_, output_state_,
                   wpc, ud, create_sizes>>

\* The fill reads sampler_state->id of an updated element whose sampler is gone.
DerefsNull(bs, ds) ==
    \E i \in 1..Len(bs) : \E e \in 1..bs[i].count :
        /\ ds[i][e].updated
        /\ ds[i][e].res = NoResource
        /\ \/ bs[i].descriptor_class = "PlainSampler"
           \/ bs[i].descriptor_class = "Mutable" /\ ds[i][e].active = "PlainSampler"

\* The other outcome of the read through a null pointer: the process faults
\* inside the fill, the lock still held.
GetCurrentStateFault(t) ==
    /\ spc[t] = "gcs_fill"
    /\ DerefsNull(bindings_, descriptors)
    /\ spc' = [spc EXCEPT ![t] = "faulted"]
    /\ UNCHANGED <<bindings_, descriptors, current_version_, layout_, objs, last_used_state_,
                   output_state_, pass_refs, set_lock, slocal, sret, wpc, ud, create_sizes,
                   gcs_hist>>

(***************************************************************************)
(* DescriptorSet::GetOutputState                                           *)
(***************************************************************************)
\* memset(data, 0, size): size / 4 slots, all zero.
ZeroedSlots(size) == [k \in 0..((size \div SizeofU32) - 1) |-> 0]

\* auto guard = Lock(); the output_state_ test; make_shared<State>;
\* descriptor_count; the no-descriptors return; CreateBuffer.
GetOutputStateCall(t) ==
    /\ spc[t] = "idle"
    /\ CanLock(set_lock, t)
    /\ LET cur_version == current_version_
       IN  IF output_state_ # NullObj
           THEN /\ sret' = SetReturned("GetOutputState", output_state_, FALSE)
                /\ pass_refs' = pass_refs \cup {output_state_}
                /\ slocal' = NoLocals
                /\ UNCHANGED <<objs, output_state_, set_lock, spc, create_sizes>>
           ELSE LET next_state == Len(objs) + 1
                    descriptor_count == OutputDescriptorCount(bindings_)
                    made == Append(objs, NewState(cur_version))
                IN  /\ Len(objs) < MaxObjects
                    /\ IF IsEmptySet(descriptor_count)
                       THEN /\ output_state_' = next_state
                            /\ objs' = made
                            /\ sret' = SetReturned("GetOutputState", next_state, FALSE)
                            /\ pass_refs' = pass_refs \cup {next_state}
                            /\ slocal' = NoLocals
                            /\ UNCHANGED <<set_lock, spc, create_sizes>>
                       ELSE LET size == descriptor_count * SizeofU32
                            IN  /\ objs' = [made EXCEPT ![next_state] = CreateBuffer(@)]
                                /\ create_sizes' = create_sizes \cup {size}
                                /\ slocal' = [NoLocals EXCEPT !.cur_version = cur_version,
                                                               !.next_state = next_state,
                                                               !.descriptor_count = descriptor_count,
                                                               !.size = size]
                                /\ set_lock' = t
                                /\ spc' = [spc EXCEPT ![t] = "gos_fill"]
                                /\ UNCHANGED <<output_state_, sret, pass_refs>>
    /\ UNCHANGED <<bindings_, descriptors, current_version_, layout_, last_used_state_,
                   wpc, ud, gcs_hist>>

\* MapMemory; memset(data, 0, size)
GetOutputStateFill(t) ==
    /\ spc[t] = "gos_fill"
    /\ objs' = [objs EXCEPT ![slocal.next_state].maps = @ + 1,
                            ![slocal.next_state].data = ZeroedSlots(slocal.size)]
    /\ spc' = [spc EXCEPT ![t] = "gos_flush"]
    /\ UNCHANGED <<bindings_, descriptors, current_version_, layout_, last_used_state_,
                   output_state_, pass_refs, set_lock, slocal, sret, wpc, ud, create_sizes,
                   gcs_hist>>

\* FlushAllocation
GetOutputStateFlush(t) ==
    /\ spc[t] = "gos_flush"
    /\ objs' = [objs EXCEPT ![slocal.next_state] = FlushAllocation(@)]
    /\ spc' = [spc EXCEPT ![t] = "gos_unmap"]
    /\ UNCHANGED <<bindings_, descriptors, current_version_, layout_, last_used_state_,
                   output_state_, pass_refs, set_lock, slocal, sret, wpc, ud, create_sizes,
                   gcs_hist>>

\* UnmapMemory; output_state_ = next_state; return next_state; (guard released)
GetOutputStateDone(t) ==
    /\ spc[t] = "gos_unmap"
    /\ objs' = [objs EXCEPT ![slocal.next_state] = UnmapMemory(@)]
    /\ output_state_' = slocal.next_state
    /\ sret' = SetReturned("GetOutputState", slocal.next_state, FALSE)
    /\ pass_refs' = pass_refs \cup {slocal.next_state}
    /\ set_lock' = IF set_lock = t THEN NoThread ELSE set_lock
    /\ spc' = [spc EXCEPT ![t] = "idle"]
    /\ slocal' = NoLocals
    /\ UNCHANGED <<bindings_, descriptors, current_version_, layout_, last_used_state_,
                   wpc, ud, create_sizes, gcs_hist>>

\* The buffer the operation of thread t is filling.
FilledBuffer(t) == IF spc[t] = "gls_fill" THEN layout_ ELSE objs[slocal.next_state]

\* MapMemory and the writes on a buffer whose vmaCreateBuffer failed, the other
\* outcome: the process faults, the lock still held.
MapMemoryFault(t) ==
    /\ spc[t] \in {"gls_fill", "gcs_fill", "gos_fill"}
    /\ ~FilledBuffer(t).allocation
    /\ spc' = [spc EXCEPT ![t] = "faulted"]
    /\ UNCHANGED <<bindings_, descriptors, current_version_, layout_, objs, last_used_state_,
                   output_state_, pass_refs, set_lock, slocal, sret, wpc, ud, create_sizes,
                   gcs_hist>>

\* The validation passes that were given State o have all let go of it: the
\* shared_ptr's destructor, which runs ~State when no cache slot holds o.
PassRelease(o) ==
    /\ o \in pass_refs
    /\ pass_refs' = pass_refs \ {o}
    /\ objs' = ReleaseUnless(objs, o, {last_used_state_, output_state_})
    /\ UNCHANGED <<bindings_, descriptors, current_version_, layout_, last_used_state_,
                   output_state_, set_lock, spc, slocal, sret, wpc, ud, create_sizes,
                   gcs_hist>>

(***************************************************************************)
(* DescriptorSet::PerformWriteUpdate / PerformCopyUpdate /                 *)
(* PerformPushDescriptorsUpdate: the base class's update, then             *)
(* current_version_++. Neither takes the set's lock.                       *)
(***************************************************************************)
UpdateKinds == {"PerformWriteUpdate", "PerformCopyUpdate", "PerformPushDescriptorsUpdate"}

\* The elements an update can write: <<i, e>>, element e of the i-th binding.
WritableElements ==
    UNION {{<<i, e>> : e \in 1..bindings_[i].count} : i \in 1..Len(bindings_)}

\* vvl::DescriptorSet::Perform*Update writing element e of the i-th binding.
PerformUpdateBase(kind, i, e, elem) ==
    /\ wpc = "idle"
    /\ descriptors' = [descriptors EXCEPT ![i][e] = elem]
    /\ wpc' = "written"
    /\ gcs_hist' = [gcs_hist EXCEPT !.dirty = TRUE]
    /\ UNCHANGED <<bindings_, current_version_, layout_, objs, last_used_state_,
                   output_state_, pass_refs, set_lock, spc, slocal, sret, ud,
                   create_sizes>>

\* vvl::DescriptorSet::Perform*Update with nothing to write (write_count == 0).
PerformUpdateBaseEmpty(kind) ==
    /\ wpc = "idle"
    /\ wpc' = "written"
    /\ gcs_hist' = [gcs_hist EXCEPT !.dirty = TRUE]
    /\ UNCHANGED <<bindings_, descriptors, current_version_, layout_, objs, last_used_state_,
                   output_state_, pass_refs, set_lock, spc, slocal, sret, ud,
                   create_sizes>>

\* vvl::DescriptorSet::Perform*Update going on to the next element it writes.
PerformUpdateBaseMore(i, e, elem) ==
    /\ wpc = "written"
    /\ descriptors' = [descriptors EXCEPT ![i][e] = elem]
    /\ gcs_hist' = [gcs_hist EXCEPT !.dirty = TRUE]
    /\ UNCHANGED <<bindings_, current_version_, layout_, objs, last_used_state_,
                   output_state_, pass_refs, set_lock, spc, slocal, sret, wpc, ud,
                   create_sizes>>

\* current_version_++ on a uint32_t.
NextVersion(v) == (v + 1) % VersionModulus

\* current_version_++; the update returns.
PerformUpdateBump ==
    /\ wpc # "idle"
    /\ current_version_' = NextVersion(current_version_)
    /\ wpc' = "idle"
    /\ gcs_hist' = [gcs_hist EXCEPT !.dirty = TRUE, !.bumped = TRUE]
    /\ UNCHANGED <<bindings_, descriptors, layout_, objs, last_used_state_, output_state_,
                   pass_refs, set_lock, spc, slocal, sret, ud, create_sizes>>

(***************************************************************************)
(* DescriptorSet::State::UsedDescriptors, and the device's writes to the   *)
(* output buffer that it reads back.                                       *)
(***************************************************************************)
\* The values instrumented shaders leave in an output slot; 0 is the memset's.
Tags == {1, 2}

\* The device marks output slot pos with val.
DeviceWrite(pos, val) ==
    /\ output_state_ # NullObj
    /\ objs[output_state_].allocation
    /\ pos \in DOMAIN objs[output_state_].data
    /\ objs' = [objs EXCEPT ![output_state_].data[pos] = val]
    /\ UNCHANGED <<bindings_, descriptors, current_version_, layout_, last_used_state_,
                   output_state_, pass_refs, set_lock, spc, slocal, sret, wpc, ud,
                   create_sizes, gcs_hist>>

\* std::map<uint32_t, std::vector<uint32_t>> used_descs;
NoUsedDescs == [b \in {} |-> << >>]

\* used_descs.emplace(binding, {}).first->second.emplace_back(i)
EmplaceBack(used_descs, binding, i) ==
    LET found == IF binding \in DOMAIN used_descs
                 THEN used_descs
                 ELSE used_descs @@ (binding :> << >>)
    IN  [found EXCEPT ![binding] = Append(@, i)]

\* Mutant of SlotPosition: the binding's start offset is left out.
SlotPositionNoStart(start, i) == i

\* uint32_t pos = start + i;
SlotPosition(start, i) == start + i

\* for (uint32_t i = 0; i < count; i++) { if (data[pos] == shader_set) ... }
RECURSIVE ScanElements(_, _, _, _, _, _, _)
ScanElements(used_descs, data, binding, count, start, i, shader_set) ==
    IF i >= count
    THEN used_descs
    ELSE LET pos == SlotPosition(start, i)
         IN  ScanElements(IF data[pos] = shader_set
                          THEN EmplaceBack(used_descs, binding, i)
                          ELSE used_descs,
                          data, binding, count, start, i + 1, shader_set)

\* for (uint32_t binding = 0; binding < max_binding; binding++) { ... }
RECURSIVE ScanBindings(_, _, _, _, _, _)
ScanBindings(used_descs, layout_data, data, binding, max_binding, shader_set) ==
    IF binding >= max_binding
    THEN used_descs
    ELSE ScanBindings(ScanElements(used_descs, data, binding,
                                   layout_data[binding + 1].count,
                                   layout_data[binding + 1].state_start, 0, shader_set),
                      layout_data, data, binding + 1, max_binding, shader_set)

\* if (!buffer.allocation) return used_descs; set.layout_.MapMemory;
\* Mutant of InvalidateAllocation: the invalidation is left out.
InvalidateAllocationSkipped(locals) == locals

\* AddressBuffer::InvalidateAllocation: the device's writes become visible to
\* the reads of this call.
InvalidateAllocation(locals) == [locals EXCEPT !.invalidated = TRUE]

\* What the reads of data[pos] by thread t find: the memory as the device wrote
\* it after an invalidation, the zeros the host wrote into its cache otherwise.
HostView(t) ==
    IF ud[t].invalidated
    THEN objs[ud[t].obj].data
    ELSE [k \in DOMAIN objs[ud[t].obj].data |-> 0]

\* buffer.MapMemory; buffer.InvalidateAllocation. No lock is taken. The caller
\* holds the State, and the set's layout buffer is complete when the State has
\* a buffer to read.
UsedDescriptorsCall(t, o, shader_set) ==
    /\ ud[t].pc = "idle"
    /\ o \in pass_refs
    /\ ~objs[o].destroyed
    /\ IF ~objs[o].allocation
       THEN /\ sret' = SetReturned("UsedDescriptors", NoUsedDescs, FALSE)
            /\ UNCHANGED <<layout_, objs, ud>>
       ELSE /\ layout_.flushed
            /\ layout_' = [layout_ EXCEPT !.maps = @ + 1]
            /\ objs' = [objs EXCEPT ![o].maps = @ + 1]
            /\ ud' = [ud EXCEPT ![t] = InvalidateAllocation(
                                           [pc |-> "ud_scan", obj |-> o,
                                            shader_set |-> shader_set,
                                            invalidated |-> FALSE])]
            /\ UNCHANGED sret
    /\ UNCHANGED <<bindings_, descriptors, current_version_, last_used_state_,
                   output_state_, pass_refs, set_lock, spc, slocal, wpc, create_sizes,
                   gcs_hist>>

\* max_binding = layout_data[0].count; the two loops; buffer.UnmapMemory;
\* set.layout_.UnmapMemory; return used_descs.
UsedDescriptorsDone(t) ==
    /\ ud[t].pc = "ud_scan"
    /\ LET o == ud[t].obj
           used_descs == ScanBindings(NoUsedDescs, layout_.data, HostView(t), 0,
                                      layout_.data[0].count, ud[t].shader_set)
       IN  /\ sret' = SetReturned("UsedDescriptors", used_descs, FALSE)
           /\ objs' = [objs EXCEPT ![o] = UnmapMemory(@)]
    /\ layout_' = UnmapMemory(layout_)
    /\ ud' = [ud EXCEPT ![t] = NoUsedLocals]
    /\ UNCHANGED <<bindings_, descriptors, current_version_, last_used_state_,
                   output_state_, pass_refs, set_lock, spc, slocal, wpc, create_sizes,
                   gcs_hist>>

(***************************************************************************)
(* DescriptorSet::DescriptorSet: a set allocated with the bindings bs.     *)
(***************************************************************************)
\* A set with the bindings bs whose descriptors updates have brought to ds,
\* with no operation in flight and nothing built yet.
SetUpdated(bs, ds, version) ==
    /\ bindings_ = bs
    /\ descriptors = ds
    /\ current_version_ = version
    /\ layout_ = NullBuffer
    /\ objs = << >>
    /\ last_used_state_ = NullObj
    /\ output_state_ = NullObj
    /\ pass_refs = {}
    /\ set_lock = NoThread
    /\ spc = [t \in Threads |-> "idle"]
    /\ slocal = NoLocals
    /\ sret = NoSetEvent
    /\ wpc = "idle"
    /\ ud = [t \in Threads |-> NoUsedLocals]
    /\ create_sizes = {}
    /\ gcs_hist = NoHistory

SetConstructed(bs) == SetUpdated(bs, FreshDescriptors(bs), 0)

\* The identifiers a read through a null pointer can come back with.
WildIds == {0, 3, kDebugInputBindlessSkipId}

\* The history of versions is not kept.
NoVersionHistory == committed = << >> /\ expected = << >>

\* The device memory service never fails, and its calls are not counted.
ServiceIdle == vma = VmaOk /\ reports = 0 /\ creates = [layout |-> 0, state |-> 0]

\* No null pointer is read in the runs of this specification, the history of
\* versions is not kept and the device memory service never fails.
AuxIdle == wild = 0 /\ NoVersionHistory /\ ServiceIdle

\* The heap of a device on which GPU-AV is disabled, with no call in flight.
HeapIdle ==
    /\ HeapConstructed(0)
    /\ heap_lock = NoThread
    /\ heap_alive = TRUE
    /\ hpc = [t \in Threads |-> "idle"]
    /\ hhandle = [t \in Threads |-> NoHandle]
    /\ hid = [t \in Threads |-> 0]
    /\ hevent = NoEvent
    /\ issued = [i \in 0..MaxDescriptors |-> << >>]

(***************************************************************************)
(* Specification of the identifier heap.                                   *)
(***************************************************************************)
SpecHeapInit == HeapInit /\ SetConstructed(<< >>) /\ AuxIdle
SpecHeapNext == HeapNext /\ UNCHANGED <<set_vars, aux_vars>>
SpecHeap == SpecHeapInit /\ [][SpecHeapNext]_vars

\* The specification of the order identifiers are issued in.
SpecRotateNext == RotateNext /\ UNCHANGED <<set_vars, aux_vars>>
SpecRotate == SpecHeapInit /\ [][SpecRotateNext]_vars

(***************************************************************************)
(* Specification of the layout buffer: every set whose bindings have       *)
(* indices in 0..LayoutMaxBinding and counts in 0..LayoutMaxCount.         *)
(***************************************************************************)
\* Per binding index: not declared, or a declared [type, count].
LayoutChoices ==
    {[declared |-> FALSE, type |-> OtherType, count |-> 0]} \cup
    [declared : {TRUE}, type : {InlineType, OtherType}, count : 0..LayoutMaxCount]

\* vvl's class of a descriptor type, for the two types told apart here.
ClassOfType(ty) == IF ty = InlineType THEN "InlineUniform" ELSE "GeneralBuffer"

\* The bindings of a choice per index, in ascending index order.
RECURSIVE BindingsOf(_, _, _)
BindingsOf(f, b, last) ==
    IF b > last
    THEN << >>
    ELSE (IF f[b].declared
          THEN <<Binding(b, f[b].type, ClassOfType(f[b].type), f[b].count)>>
          ELSE << >>) \o BindingsOf(f, b + 1, last)

LayoutInit ==
    /\ HeapIdle
    /\ AuxIdle
    /\ \E f \in [0..LayoutMaxBinding -> LayoutChoices] :
          SetConstructed(BindingsOf(f, 0, LayoutMaxBinding))

LayoutNext ==
    /\ \/ \E t \in Threads : GetLayoutStateCall(t)
       \/ \E t \in Threads : GetLayoutStateFill(t)
       \/ \E t \in Threads : GetLayoutStateDone(t)
    /\ UNCHANGED <<heap_vars, aux_vars>>

SpecLayout == LayoutInit /\ [][LayoutNext]_vars

(***************************************************************************)
(* Specification of the snapshot's contents: one thread takes the snapshot *)
(* of every set of at most FillMaxSize bindings and elements, in every     *)
(* state of its descriptors that updates lead to.                          *)
(***************************************************************************)
\* vvl's descriptor type of a class, as far as the code tells types apart.
TypeOfClass(dc) == IF dc = "InlineUniform" THEN InlineType ELSE OtherType

\* The classes a mutable descriptor can be active as.
ActiveClasses == {"GeneralBuffer", "TexelBuffer", "Image", "PlainSampler", "ImageSampler",
                  "AccelerationStructure"}

\* The sets of bindings 0..n-1 over the classes `classes` with n + elements <= size.
RECURSIVE BindingSeqs(_, _, _)
BindingSeqs(classes, first, size) ==
    {<< >>} \cup
    UNION {{<<Binding(first, TypeOfClass(dc), dc, n)>> \o rest :
                rest \in BindingSeqs(classes, first + 1, size - 1 - n)} :
           dc \in classes, n \in 0..(size - 1)}

\* What updates can have made of one element of a binding of class dc.
ElementChoices(dc) ==
    {UnwrittenElement} \cup
    CASE dc = "Mutable" ->
            [updated : {TRUE}, res : Resources, active : ActiveClasses]
      [] dc \in {"InlineUniform", "NoDescriptorClass"} ->
            [updated : {TRUE}, res : {NoResource}, active : {dc}]
      [] OTHER ->
            [updated : {TRUE}, res : Resources, active : {dc}]

\* The sequences of n elements of a binding of class dc.
RECURSIVE ElementSeqs(_, _)
ElementSeqs(dc, n) ==
    IF n = 0
    THEN {<< >>}
    ELSE {Append(es, e) : es \in ElementSeqs(dc, n - 1), e \in ElementChoices(dc)}

\* What updates can have made of the descriptors of the bindings i.. of bs.
RECURSIVE DescriptorSeqs(_, _)
DescriptorSeqs(bs, i) ==
    IF i > Len(bs)
    THEN {<< >>}
    ELSE {<<es>> \o rest : es \in ElementSeqs(bs[i].descriptor_class, bs[i].count),
                           rest \in DescriptorSeqs(bs, i + 1)}

\* The number of elements of ds[i..] that were updated.
RECURSIVE UpdatedCount(_, _)
UpdatedCount(ds, i) ==
    IF i > Len(ds)
    THEN 0
    ELSE Cardinality({e \in DOMAIN ds[i] : ds[i][e].updated}) + UpdatedCount(ds, i + 1)

\* The set after one update per updated element.
FillInit ==
    /\ HeapIdle
    /\ AuxIdle
    /\ \E bs \in BindingSeqs(Classes, 0, FillMaxSize) :
          \E ds \in DescriptorSeqs(bs, 1) :
              SetUpdated(bs, ds, UpdatedCount(ds, 1) % VersionModulus)

FillNext ==
    /\ \/ GetCurrentStateCall(1)
       \/ GetCurrentStateFill(1)
       \/ GetCurrentStateFlush(1)
       \/ GetCurrentStateDone(1)
    /\ UNCHANGED <<heap_vars, aux_vars>>

SpecFill == FillInit /\ [][FillNext]_vars

(***************************************************************************)
(* Specification of the snapshot cache: updates, GetCurrentState and       *)
(* GetOutputState on the sets of SnapLayouts.                              *)
(***************************************************************************)
\* A set without bindings, a binding without elements, a general buffer, an
\* inline uniform block.
SnapLayouts ==
    {<< >>,
     <<Binding(0, OtherType, "GeneralBuffer", 0)>>,
     <<Binding(0, OtherType, "GeneralBuffer", 1)>>,
     <<Binding(0, InlineType, "InlineUniform", 1)>>}

\* The operations hold the set's lock from entry to return, so one caller shows
\* every order of them; the updates run beside it.
SnapThreads == {1}

SnapInit ==
    /\ HeapIdle
    /\ AuxIdle
    /\ \E bs \in SnapLayouts : SetConstructed(bs)

SnapNext ==
    /\ \/ \E t \in SnapThreads : GetCurrentStateCall(t)
       \/ \E t \in SnapThreads : GetCurrentStateFill(t)
       \/ \E t \in SnapThreads : GetCurrentStateFlush(t)
       \/ \E t \in SnapThreads : GetCurrentStateDone(t)
       \/ \E t \in SnapThreads : GetOutputStateCall(t)
       \/ \E t \in SnapThreads : GetOutputStateFill(t)
       \/ \E t \in SnapThreads : GetOutputStateFlush(t)
       \/ \E t \in SnapThreads : GetOutputStateDone(t)
       \/ \E kind \in UpdateKinds, ie \in WritableElements :
             \E elem \in ElementChoices(bindings_[ie[1]].descriptor_class) \ {UnwrittenElement} :
                 PerformUpdateBase(kind, ie[1], ie[2], elem)
       \/ \E kind \in UpdateKinds : PerformUpdateBaseEmpty(kind)
       \/ PerformUpdateBump
    /\ UNCHANGED <<heap_vars, aux_vars>>

SpecSnap == SnapInit /\ [][SnapNext]_vars

(***************************************************************************)
(* Specification of the readback: GetLayoutState, GetOutputState, the      *)
(* device's marks and UsedDescriptors on the sets of ReadbackLayouts.      *)
(***************************************************************************)
\* A set without bindings; one binding of three elements; a binding of two
\* elements behind an inline uniform block; bindings 1 and 3 alone.
ReadbackLayouts ==
    {<< >>,
     <<Binding(0, OtherType, "GeneralBuffer", 3)>>,
     <<Binding(0, InlineType, "InlineUniform", 4), Binding(1, OtherType, "GeneralBuffer", 2)>>,
     <<Binding(1, OtherType, "GeneralBuffer", 1), Binding(3, OtherType, "GeneralBuffer", 1)>>}

\* GetLayoutState and GetOutputState hold the set's lock from entry to return,
\* so one caller shows every order of them.
ReadbackBuilders == {1}

ReadbackInit ==
    /\ HeapIdle
    /\ AuxIdle
    /\ \E bs \in ReadbackLayouts : SetConstructed(bs)

ReadbackNext ==
    /\ \/ \E t \in ReadbackBuilders : GetLayoutStateCall(t)
       \/ \E t \in ReadbackBuilders : GetLayoutStateFill(t)
       \/ \E t \in ReadbackBuilders : GetLayoutStateDone(t)
       \/ \E t \in ReadbackBuilders : GetOutputStateCall(t)
       \/ \E t \in ReadbackBuilders : GetOutputStateFill(t)
       \/ \E t \in ReadbackBuilders : GetOutputStateFlush(t)
       \/ \E t \in ReadbackBuilders : GetOutputStateDone(t)
       \/ \E pos \in 0..(OutputDescriptorCount(bindings_) - 1), val \in Tags : DeviceWrite(pos, val)
       \/ \E t \in Threads, o \in DOMAIN objs, shader_set \in Tags :
             UsedDescriptorsCall(t, o, shader_set)
       \/ \E t \in Threads : UsedDescriptorsDone(t)
    /\ UNCHANGED <<heap_vars, aux_vars>>

SpecReadback == ReadbackInit /\ [][ReadbackNext]_vars

(***************************************************************************)
(* Specification of snapshots over destroyed resources: one thread takes   *)
(* the snapshot of a binding of two elements, of every class, whose        *)
(* elements are unwritten, bound to a live resource or bound to a resource *)
(* that is gone.                                                           *)
(***************************************************************************)
\* What updates and destructions can have made of one element of class dc.
DestroyedChoices(dc) ==
    ElementChoices(dc) \cup
    [updated : {TRUE}, res : {NoResource},
     active : IF dc = "Mutable" THEN ActiveClasses ELSE {dc}]

DestroyedClasses == Classes \ {"InlineUniform", "NoDescriptorClass"}

DestroyedInit ==
    /\ HeapIdle
    /\ wild \in WildIds
    /\ NoVersionHistory
    /\ ServiceIdle
    /\ \E dc \in DestroyedClasses :
          \E e1 \in DestroyedChoices(dc), e2 \in DestroyedChoices(dc) :
              SetUpdated(<<Binding(0, OtherType, dc, 2)>>, <<(<<e1, e2>>)>>, 1)

DestroyedNext ==
    /\ \/ GetCurrentStateCall(1)
       \/ GetCurrentStateFill(1)
       \/ GetCurrentStateFault(1)
       \/ GetCurrentStateFlush(1)
       \/ GetCurrentStateDone(1)
    /\ UNCHANGED <<heap_vars, aux_vars>>

SpecDestroyed == DestroyedInit /\ [][DestroyedNext]_vars

(***************************************************************************)
(* Specification of snapshots beside a writer: one thread updates a        *)
(* general buffer binding of two elements, one or more elements per        *)
(* update, while another takes snapshots.                                  *)
(***************************************************************************)
RaceLayout == <<Binding(0, OtherType, "GeneralBuffer", 2)>>

\* What the updates of this specification write: one buffer.
RaceWrites == {[updated |-> TRUE, res |-> "r1", active |-> "GeneralBuffer"]}

RaceInit ==
    /\ HeapIdle
    /\ wild = 0
    /\ ServiceIdle
    /\ SetConstructed(RaceLayout)
    /\ committed = FreshDescriptors(RaceLayout)
    /\ expected = << >>

RaceNext ==
    /\ \/ GetCurrentStateCall(1) /\ expected' = committed /\ UNCHANGED committed
       \/ /\ \/ GetCurrentStateFill(1)
             \/ GetCurrentStateFlush(1)
             \/ GetCurrentStateDone(1)
             \/ \E kind \in UpdateKinds, ie \in WritableElements, elem \in RaceWrites :
                   PerformUpdateBase(kind, ie[1], ie[2], elem)
             \/ \E ie \in WritableElements, elem \in RaceWrites :
                   PerformUpdateBaseMore(ie[1], ie[2], elem)
          /\ UNCHANGED <<committed, expected>>
       \/ PerformUpdateBump /\ committed' = descriptors' /\ UNCHANGED expected
    /\ UNCHANGED <<heap_vars, wild, service_vars>>

SpecRace == RaceInit /\ [][RaceNext]_vars

(***************************************************************************)
(* Specification of what follows a publication: one thread builds the      *)
(* layout, snapshots and the output state of a general buffer binding,     *)
(* a writer updates it, the device marks the output buffer and another     *)
(* thread reads it back.                                                   *)
(***************************************************************************)
PublishLayout == <<Binding(0, OtherType, "GeneralBuffer", 1)>>

\* The thread that reads the output buffer back.
PublishReader == 2

\* The tag the device writes and the reader looks for.
PublishTags == {1}

PublishInit ==
    /\ HeapIdle
    /\ AuxIdle
    /\ SetConstructed(PublishLayout)

PublishNext ==
    /\ \/ GetLayoutStateCall(1)
       \/ GetLayoutStateFill(1)
       \/ GetLayoutStateDone(1)
       \/ GetCurrentStateCall(1)
       \/ GetCurrentStateFill(1)
       \/ GetCurrentStateFlush(1)
       \/ GetCurrentStateDone(1)
       \/ GetOutputStateCall(1)
       \/ GetOutputStateFill(1)
       \/ GetOutputStateFlush(1)
       \/ GetOutputStateDone(1)
       \/ \E kind \in UpdateKinds, ie \in WritableElements, elem \in RaceWrites :
             PerformUpdateBase(kind, ie[1], ie[2], elem)
       \/ PerformUpdateBump
       \/ \E pos \in 0..(OutputDescriptorCount(bindings_) - 1), val \in PublishTags :
             DeviceWrite(pos, val)
       \/ \E o \in {output_state_} \ {NullObj}, shader_set \in PublishTags :
             UsedDescriptorsCall(PublishReader, o, shader_set)
       \/ UsedDescriptorsDone(PublishReader)
    /\ UNCHANGED <<heap_vars, aux_vars>>

SpecPublish == PublishInit /\ [][PublishNext]_vars

(***************************************************************************)
(* Specification of State lifetimes: snapshots of a general buffer binding *)
(* are taken, replaced after updates, and let go of by the validation      *)
(* passes that were given them.                                            *)
(***************************************************************************)
LifetimeInit ==
    /\ HeapIdle
    /\ AuxIdle
    /\ SetConstructed(PublishLayout)

LifetimeNext ==
    /\ \/ GetCurrentStateCall(1)
       \/ GetCurrentStateFill(1)
       \/ GetCurrentStateFlush(1)
       \/ GetCurrentStateDone(1)
       \/ \E kind \in UpdateKinds, ie \in WritableElements, elem \in RaceWrites :
             PerformUpdateBase(kind, ie[1], ie[2], elem)
       \/ PerformUpdateBump
       \/ \E o \in DOMAIN objs : PassRelease(o)
    /\ UNCHANGED <<heap_vars, aux_vars>>

SpecLifetime == LifetimeInit /\ [][LifetimeNext]_vars

(***************************************************************************)
(* Specification of a device memory service that may fail: each run has    *)
(* one answer to vmaCreateBuffer and to the address helper, and the three  *)
(* builders are called on a general buffer binding.  InternalError calls   *)
(* and CreateBuffer calls are counted.                                     *)
(***************************************************************************)
ServiceInit ==
    /\ HeapIdle
    /\ wild = 0
    /\ NoVersionHistory
    /\ vma \in VmaOutcomes
    /\ reports = 0
    /\ creates = [layout |-> 0, state |-> 0]
    /\ SetConstructed(PublishLayout)

\* The operation thread t begins calls CreateBuffer in its first step.
CreatesLayout(t) == spc[t] = "idle" /\ spc'[t] = "gls_fill"
CreatesState(t) == spc[t] = "idle" /\ spc'[t] \in {"gcs_fill", "gos_fill"}

ServiceNext ==
    /\ \/ /\ GetLayoutStateCall(1)
          /\ layout_.device_addr = 0 => creates.layout < MaxObjects
          /\ creates' = IF CreatesLayout(1) THEN [creates EXCEPT !.layout = @ + 1] ELSE creates
          /\ reports' = IF CreatesLayout(1) THEN reports + CreateBufferReports ELSE reports
       \/ /\ \/ GetCurrentStateCall(1)
             \/ GetOutputStateCall(1)
          /\ creates' = IF CreatesState(1) THEN [creates EXCEPT !.state = @ + 1] ELSE creates
          /\ reports' = IF CreatesState(1) THEN reports + CreateBufferReports ELSE reports
       \/ /\ \/ GetLayoutStateFill(1)
             \/ GetLayoutStateDone(1)
             \/ GetCurrentStateFill(1)
             \/ GetCurrentStateFlush(1)
             \/ GetCurrentStateDone(1)
             \/ GetOutputStateFill(1)
             \/ GetOutputStateFlush(1)
             \/ GetOutputStateDone(1)
             \/ MapMemoryFault(1)
          /\ UNCHANGED <<reports, creates>>
    /\ UNCHANGED <<heap_vars, wild, committed, expected, vma>>

SpecService == ServiceInit /\ [][ServiceNext]_vars

(***************************************************************************)
(* Specification of the maps: the builders and UsedDescriptors run on an   *)
(* empty set or on one general buffer descriptor, beside a heap that       *)
(* issues identifiers and is destroyed.                                    *)
(***************************************************************************)
MapsLayouts == {<< >>, PublishLayout}

MapsInit ==
    /\ HeapInit
    /\ AuxIdle
    /\ \E bs \in MapsLayouts : SetConstructed(bs)

MapsNext ==
    /\ \/ /\ \/ GetLayoutStateCall(1)
             \/ GetLayoutStateFill(1)
             \/ GetLayoutStateDone(1)
             \/ GetCurrentStateCall(1)
             \/ GetCurrentStateFill(1)
             \/ GetCurrentStateFlush(1)
             \/ GetCurrentStateDone(1)
             \/ GetOutputStateCall(1)
             \/ GetOutputStateFill(1)
             \/ GetOutputStateFlush(1)
             \/ GetOutputStateDone(1)
             \/ \E t \in Threads, o \in {output_state_} \ {NullObj}, shader_set \in PublishTags :
                   UsedDescriptorsCall(t, o, shader_set)
             \/ \E t \in Threads : UsedDescriptorsDone(t)
          /\ UNCHANGED heap_vars
       \/ /\ \/ \E h \in RotateHandles : NextIdCall(1, h)
             \/ NextIdLocked(1)
             \/ NextIdSetBit(1)
             \/ HeapDestroy
          /\ UNCHANGED set_vars
    /\ UNCHANGED aux_vars

SpecMaps == MapsInit /\ [][MapsNext]_vars

(***************************************************************************)
(* Claims about the identifier heap.                                       *)
(***************************************************************************)
\* Identifiers returned by NextId and not passed to DeleteId since.
LiveIds == {i \in 0..MaxDescriptors : Len(issued[i]) > 0}

\* C1: no identifier is live twice at a time: between two DeleteId calls on it
\* an identifier is returned by at most one NextId call, it is never 0, and the
\* heap records exactly the handle of that call as its owner.
C1_LiveIdsUnique ==
    /\ issued[0] = << >>
    /\ \A i \in 1..MaxDescriptors :
          /\ Len(issued[i]) <= 1
          /\ Len(issued[i]) = 1 =>
                /\ i \in DOMAIN alloc_map_
                /\ alloc_map_[i] = issued[i][1]

\* C1 witness: identifiers 1 and 2 are live at once under different handles,
\* with the cursor at 2 in a heap of capacity 3: identifier 1 was freed and reissued.
C1_Witness ==
    /\ max_descriptors_ = 3
    /\ LiveIds = {1, 2}
    /\ issued[1][1] # issued[2][1]
    /\ next_id_ = 2

\* A NextId call of thread t returns in this step.
NextIdReturns(t) ==
    /\ hpc[t] \in {"next_lock", "next_setbit"}
    /\ hpc'[t] = "idle"

\* C2: with capacity C > 0, NextId returns 0 exactly when C identifiers are live,
\* and then changes neither the live set, the bitmap nor the cursor; otherwise it
\* returns a value in [1, C].
C2_ZeroIffFull ==
    [][\A t \in Threads :
          (max_descriptors_ > 0 /\ NextIdReturns(t)) =>
              /\ hevent'.op = "NextId"
              /\ hevent'.val \in 0..max_descriptors_
              /\ (hevent'.val = 0) <=> (Cardinality(LiveIds) = max_descriptors_)
              /\ (hevent'.val = 0) =>
                    UNCHANGED <<alloc_map_, gpu_heap_state_, next_id_, issued>>]_vars

\* C2 witness: NextId has just returned 0 from a full heap of capacity 2.
C2_Witness ==
    /\ max_descriptors_ = 2
    /\ hevent = Returned("NextId", 0)
    /\ Cardinality(LiveIds) = 2
    /\ heap_lock = NoThread

\* C3: whenever the heap lock is free, bit i of the bitmap is set iff
\* identifier i is a key of the live-identifier map, for every i in [0, C];
\* bit 0 is never set.
C3_BitmapCoherent ==
    (heap_alive /\ max_descriptors_ > 0) =>
        /\ ~TestBit(gpu_heap_state_, 0)
        /\ heap_lock = NoThread =>
              \A i \in 0..max_descriptors_ :
                  TestBit(gpu_heap_state_, i) <=> (i \in DOMAIN alloc_map_)

\* C3 witness: DeleteId has just returned for identifier 0, which is never live,
\* while one identifier is live and another was freed.
C3_Witness ==
    /\ hevent = Returned("DeleteId", 0)
    /\ heap_lock = NoThread
    /\ DOMAIN alloc_map_ = {2}
    /\ TestBit(gpu_heap_state_, 2)
    /\ next_id_ = 3

\* C4: a heap of capacity 0 returns 0 from every NextId, changes nothing in
\* DeleteId, and never creates, maps, writes or destroys a bitmap buffer,
\* through construction, operation and destruction.
C4_DisabledHeap ==
    max_descriptors_ = 0 =>
        /\ hevent.op = "NextId" => hevent.val = 0
        /\ alloc_map_ = EmptyMap
        /\ next_id_ = 1
        /\ gpu_heap_state_ = << >>
        /\ heap_buffer_ = [allocation |-> FALSE, mapped |-> FALSE]
        /\ heap_ops = {}
        /\ heap_lock = NoThread
        /\ LiveIds = {}

\* C4 witness: a heap of capacity 0 was destroyed after DeleteId(0) returned.
C4_Witness ==
    /\ max_descriptors_ = 0
    /\ ~heap_alive
    /\ hevent.op = "DeleteId"

(***************************************************************************)
(* Claims about the layout buffer.                                         *)
(***************************************************************************)
\* The declared binding indices of the set.
DeclaredIndices == {bindings_[i].binding : i \in 1..Len(bindings_)}

\* The entry of bindings_ that declares binding index b.
DeclaredBinding(b) == bindings_[CHOOSE i \in 1..Len(bindings_) : bindings_[i].binding = b]

\* n(b): 1 for an inline uniform block, the declared element count otherwise.
ElementsOf(b) ==
    IF DeclaredBinding(b).type = InlineType THEN 1 ELSE DeclaredBinding(b).count

RECURSIVE SumElements(_)
SumElements(S) ==
    IF S = {} THEN 0
    ELSE LET b == CHOOSE x \in S : TRUE IN ElementsOf(b) + SumElements(S \ {b})

\* GetLayoutState has built the layout buffer and returned its address.
LayoutBuilt ==
    /\ sret.op = "GetLayoutState"
    /\ layout_.allocation
    /\ set_lock = NoThread

SlotsOf(b) ==
    CASE b.descriptor_class = "InlineUniform" -> 1
      [] b.descriptor_class = "NoDescriptorClass" -> 0
      [] OTHER -> b.count

RECURSIVE SlotsBefore(_)
SlotsBefore(i) == IF i <= 1 THEN 0 ELSE SlotsOf(bindings_[i - 1]) + SlotsBefore(i - 1)

\* The slot of element e of the i-th binding.
SlotOf(i, e) == SlotsBefore(i) + (e - 1)

\* GetCurrentState has returned a snapshot with a buffer.
SnapshotBuilt ==
    /\ sret.op = "GetCurrentState"
    /\ set_lock = NoThread
    /\ objs[sret.val].allocation

\* The classes that track an extent.
ExtentClasses == {"GeneralBuffer", "TexelBuffer"}

GetCurrentStateReturns(t) ==
    \/ GetCurrentStateCall(t) /\ spc'[t] = "idle"
    \/ GetCurrentStateDone(t)

\* What the returning call found when it read the version.
ReturningClean(t) == IF spc[t] = "idle" THEN GcsClean ELSE slocal.clean
ReturningAfterUpdate(t) == IF spc[t] = "idle" THEN GcsAfterUpdate ELSE slocal.after_update
ReturningVersion(t) == IF spc[t] = "idle" THEN current_version_ ELSE slocal.cur_version

\* C6: when no Perform*Update takes a step between two GetCurrentState calls,
\* the second returns the object the first returned, and it returns in its
\* first step: no State is made, no buffer is created, mapped, written or
\* flushed.
C6_CacheIdempotent ==
    [][\A t \in Threads :
          (GetCurrentStateReturns(t) /\ ReturningClean(t)) =>
              /\ sret'.val = gcs_hist.prev
              /\ spc[t] = "idle"
              /\ objs' = objs
              /\ create_sizes' = create_sizes]_vars

\* C6 witness: the version has moved, a snapshot with a buffer was built, and
\* the call after it, with no update in between, has returned that snapshot.
C6_Witness ==
    /\ sret.op = "GetCurrentState"
    /\ sret.clean
    /\ sret.val = last_used_state_
    /\ objs[sret.val].allocation
    /\ current_version_ # 0
    /\ set_lock = NoThread

\* C7 as claimed: when one or more Perform*Update calls complete between two
\* GetCurrentState calls, the second returns an object different from the
\* first's, stamped with the version the second call read.
C7_RebuildAfterUpdate ==
    [][\A t \in Threads :
          (GetCurrentStateReturns(t) /\ ReturningAfterUpdate(t)) =>
              /\ sret'.val # gcs_hist.prev
              /\ objs'[sret'.val].version = ReturningVersion(t)]_vars

\* The number of descriptor records of the set: one per element, one for an
\* inline uniform block.
RecordCount == SumElements(DeclaredIndices)

\* C8: on a set without descriptor records GetCurrentState and GetOutputState
\* return the object they cache, no State of the set has a buffer, and no
\* buffer is requested at all; on any set no buffer of size 0 is requested.
C8_EmptySet ==
    /\ 0 \notin create_sizes
    /\ RecordCount = 0 =>
          /\ create_sizes = {}
          /\ \A o \in DOMAIN objs : ~objs[o].allocation /\ objs[o].data = << >>
          /\ sret.op = "GetCurrentState" => sret.val # NullObj /\ sret.val = last_used_state_
          /\ sret.op = "GetOutputState" => sret.val # NullObj /\ sret.val = output_state_

\* C8 witness: a set whose one binding has no elements, after both builders
\* have returned.
C8_Witness ==
    /\ Len(bindings_) = 1
    /\ RecordCount = 0
    /\ last_used_state_ # NullObj
    /\ output_state_ # NullObj
    /\ sret.op = "GetOutputState"

(***************************************************************************)
(* Claims about the readback.                                              *)
(***************************************************************************)
\* The mapping `used` lists exactly the elements of layout `ld` whose slot of
\* `data` holds T: every listed index is a match, every match is listed, no
\* key has an empty list, and every list ascends strictly.
Decodes(used, ld, data, T) ==
    /\ \A b \in DOMAIN used :
          /\ b \in 0..(ld[0].count - 1)
          /\ Len(used[b]) > 0
          /\ \A k \in 1..Len(used[b]) :
                /\ used[b][k] \in 0..(ld[b + 1].count - 1)
                /\ data[ld[b + 1].state_start + used[b][k]] = T
          /\ \A k \in 1..(Len(used[b]) - 1) : used[b][k] < used[b][k + 1]
    /\ \A b \in 0..(ld[0].count - 1) : \A i \in 0..(ld[b + 1].count - 1) :
          data[ld[b + 1].state_start + i] = T =>
              /\ b \in DOMAIN used
              /\ \E k \in 1..Len(used[b]) : used[b][k] = i

\* C9: UsedDescriptors on a State with a buffer returns the mapping that
\* decodes the output buffer against the layout buffer for its tag; on a State
\* without a buffer it returns the empty mapping and maps nothing; binding 0
\* with 3 elements at offset 0 and slots 0 and 2 holding the tag gives {0: [0, 2]}.
C9_UsedDescriptorsDecode ==
    [][\A t \in Threads :
          /\ UsedDescriptorsDone(t) =>
                /\ Decodes(sret'.val, layout_.data, objs[ud[t].obj].data, ud[t].shader_set)
                /\ (/\ layout_.data[0].count = 1
                    /\ layout_.data[1] = [count |-> 3, state_start |-> 0]
                    /\ objs[ud[t].obj].data[0] = ud[t].shader_set
                    /\ objs[ud[t].obj].data[1] # ud[t].shader_set
                    /\ objs[ud[t].obj].data[2] = ud[t].shader_set)
                      => sret'.val = (0 :> <<0, 2>>)
          /\ \A o \in DOMAIN objs : \A T \in Tags :
                (UsedDescriptorsCall(t, o, T) /\ ~objs[o].allocation) =>
                    /\ sret'.val = NoUsedDescs
                    /\ DOMAIN sret'.val = {}
                    /\ layout_' = layout_ /\ objs' = objs]_vars

\* C9 witness: UsedDescriptors has returned {1: [0, 1]} for the set whose
\* binding 1 starts at offset 1, and both buffers are unmapped again.
C9_Witness ==
    /\ sret.op = "UsedDescriptors"
    /\ Len(bindings_) = 2 /\ bindings_[1].type = InlineType
    /\ DOMAIN sret.val = {1}
    /\ sret.val[1] = <<0, 1>>
    /\ layout_.maps = 0
    /\ objs[output_state_].maps = 0

(***************************************************************************)
(* Claims about destroyed resources.                                       *)
(***************************************************************************)
\* C11 as claimed: the build never reads through the pointer of a resource
\* that is gone, it completes, and in the snapshot every updated element whose
\* resource is gone has the skip sentinel as its identifier.
C11_DestroyedIsSkip ==
    /\ \A t \in Threads :
          /\ spc[t] # "faulted"
          /\ spc[t] = "gcs_fill" => ~DerefsNull(bindings_, descriptors)
    /\ SnapshotBuilt =>
          \A i \in 1..Len(bindings_) : \A e \in 1..bindings_[i].count :
              (descriptors[i][e].updated /\ descriptors[i][e].res = NoResource) =>
                  objs[sret.val].data[SlotOf(i, e)].id = kDebugInputBindlessSkipId

(***************************************************************************)
(* Claims about snapshots beside a writer.                                 *)
(***************************************************************************)
\* The records of the descriptors ds, as a snapshot holds them.
RecordsOf(ds) ==
    FillAllBindings(bindings_, ds, 1,
                    [data |-> UninitializedSlots(DescriptorCount(bindings_)), index |-> 0]).data

\* C12 as claimed: the snapshot a GetCurrentState call returns is stamped with
\* the version v the call read and holds the records of the descriptors as
\* they were when the version became v; and a call made after an update has
\* completed does not return the snapshot of the call before it.
C12_SingleVersionSnapshot ==
    /\ [](SnapshotBuilt =>
             /\ objs[sret.val].data = RecordsOf(expected))
    /\ [][\A t \in Threads :
             (GetCurrentStateReturns(t) /\ ReturningAfterUpdate(t)) =>
                 sret'.val # gcs_hist.prev]_vars

(***************************************************************************)
(* Claims about publication.                                               *)
(***************************************************************************)
\* The State objects a cache slot or a validation pass refers to.
Published == (pass_refs \cup {last_used_state_, output_state_}) \ {NullObj}

\* C13: the step that stores a State with a buffer in a cache slot or returns
\* it finds every slot written, the buffer flushed and unmapped; the host
\* writes to a buffer only before its flush and its publication; afterwards
\* its contents change by the device's marks alone, and it stays flushed.
C13_PublishAfterFlush ==
    [][\A o \in DOMAIN objs' :
          /\ (/\ o \notin Published
              /\ o \in (pass_refs' \cup {last_used_state_', output_state_'})
              /\ objs'[o].allocation) =>
                 /\ objs'[o].flushed
                 /\ objs'[o].maps = 0
                 /\ DOMAIN objs'[o].data # {}
                 /\ \A k \in DOMAIN objs'[o].data :
                       IF o = output_state_'
                       THEN objs'[o].data[k] = 0
                       ELSE objs'[o].data[k].class # "uninitialized"
          /\ (o \in DOMAIN objs /\ objs'[o].data # objs[o].data) =>
                 \/ ~objs[o].flushed /\ o \notin Published /\ objs'[o].maps > 0
                 \/ \E pos \in DOMAIN objs[o].data, val \in Tags : DeviceWrite(pos, val)
          /\ (o \in DOMAIN objs /\ objs[o].flushed) => objs'[o].flushed]_vars

\* C13 witness: a snapshot and the output state were published, an update has
\* completed since, the device has marked the output buffer and UsedDescriptors
\* has read it back; the snapshot still holds the records it was published with.
C13_Witness ==
    /\ sret.op = "UsedDescriptors"
    /\ DOMAIN sret.val # {}
    /\ last_used_state_ # NullObj
    /\ output_state_ # NullObj
    /\ objs[last_used_state_].flushed
    /\ objs[last_used_state_].version # current_version_
    /\ descriptors[1][1].updated
    /\ objs[last_used_state_].data[0].id = 0

(***************************************************************************)
(* Claims about the output state.                                          *)
(***************************************************************************)
\* A step in which GetOutputState returns to thread t.
GetOutputStateReturns(t) ==
    \/ GetOutputStateCall(t) /\ spc'[t] = "idle"
    \/ GetOutputStateDone(t)

\* C14: once GetOutputState has cached an object the slot never changes and
\* every later call returns that object and makes nothing; the object returned
\* first has one slot per descriptor record, all of them 0, and as many slots
\* as a snapshot of the set has records.
C14_OutputBuiltOnce ==
    /\ [][/\ output_state_ # NullObj => output_state_' = output_state_
          /\ \A t \in Threads :
                GetOutputStateReturns(t) =>
                    IF output_state_ # NullObj
                    THEN sret'.val = output_state_ /\ objs' = objs
                    ELSE /\ sret'.val = output_state_'
                         /\ sret'.val \notin Published
                         /\ Cardinality(DOMAIN objs'[sret'.val].data) = RecordCount
                         /\ \A k \in DOMAIN objs'[sret'.val].data :
                               objs'[sret'.val].data[k] = 0]_vars
    /\ [](\A o \in DOMAIN objs :
             (objs[o].flushed /\ output_state_ # NullObj) =>
                 Cardinality(DOMAIN objs[o].data) =
                     Cardinality(DOMAIN objs[output_state_].data))

\* C14 witness: the output state was built first; an update and a rebuild of
\* the snapshot later, GetOutputState has returned it again.
C14_Witness ==
    /\ sret.op = "GetOutputState"
    /\ output_state_ = 1
    /\ last_used_state_ = 2
    /\ sret.val = 1
    /\ objs[1].allocation /\ objs[2].allocation
    /\ objs[2].version # objs[1].version
    /\ descriptors[1][1].updated

(***************************************************************************)
(* Claims about State lifetimes.                                           *)
(***************************************************************************)
\* The State objects something refers to: a cache slot, a validation pass, or
\* the call that is building it.
HeldStates == (Published \cup {slocal.next_state}) \ {NullObj}

\* C15: a State is destroyed exactly when nothing refers to it any more: a
\* State a pass holds has its buffer whatever has replaced it in the cache
\* slot, the step that destroys a State is the step in which its last holder
\* lets go, and a destroyed State is never touched again.
C15_SnapshotLifetime ==
    /\ [](\A o \in DOMAIN objs :
             /\ objs[o].destroyed <=> o \notin HeldStates
             /\ o \in pass_refs => objs[o].allocation /\ ~objs[o].destroyed)
    /\ [][\A o \in DOMAIN objs :
             /\ objs[o].destroyed => objs'[o] = objs[o]
             /\ (~objs[o].destroyed /\ objs'[o].destroyed) =>
                   /\ o \in HeldStates
                   /\ o \notin pass_refs' \cup {last_used_state_', output_state_'}]_vars

\* C15 witness: the first snapshot, replaced in the cache slot by the second
\* after an update, still has its buffer because a pass holds it.
C15_Witness ==
    /\ last_used_state_ = 2
    /\ 1 \in pass_refs
    /\ objs[1].allocation /\ ~objs[1].destroyed
    /\ objs[1].version # objs[2].version
    /\ set_lock = NoThread

(***************************************************************************)
(* Claims about failures of the device memory service.                     *)
(***************************************************************************)
\* No DescriptorSet operation is in flight.
SetIdle == \A t \in Threads : spc[t] = "idle"

\* C16: when vmaCreateBuffer fails inside a builder, the call reports the
\* failure once (as many InternalError calls as CreateBuffer calls once the
\* calls have returned), no step maps or writes a buffer that has no
\* allocation, and the call returns.
C16_AllocationFailureHandled ==
    /\ [](\A t \in Threads : spc[t] # "faulted")
    /\ []((~vma.created /\ SetIdle) => reports = creates.layout + creates.state)
    /\ [][/\ ~layout_.allocation /\ ~layout_'.allocation =>
                layout_'.maps = layout_.maps /\ layout_'.data = layout_.data
          /\ \A o \in DOMAIN objs :
                ~objs[o].allocation /\ ~objs[o].destroyed =>
                    objs'[o].maps = objs[o].maps /\ objs'[o].data = objs[o].data]_vars

\* C18: at most one layout buffer is ever created for a binding set, whatever
\* the address helper answered: once GetLayoutState has called CreateBuffer,
\* no later call does, and a later call leaves layout_ alone and returns its
\* device_addr.
C18_LayoutMemoized ==
    /\ [](creates.layout <= 1)
    /\ [][\A t \in Threads :
             (creates.layout >= 1 /\ spc[t] = "idle" /\ spc'[t] # "idle") =>
                 spc'[t] # "gls_fill"]_vars
    /\ [][(creates.layout >= 1 /\ SetIdle /\ sret' # sret /\ sret'.op = "GetLayoutState") =>
             layout_' = layout_ /\ sret'.val = layout_.device_addr]_vars

(***************************************************************************)
(* Claims about mutable descriptors.                                       *)
(***************************************************************************)
\* C17: in a snapshot, the record of an updated mutable descriptor whose active
\* class is K is the record the overload of class K gives for the same
\* resource: same class tag, identifier and extent.
C17_MutableSameRules ==
    SnapshotBuilt =>
        \A i \in 1..Len(bindings_) :
            bindings_[i].descriptor_class = "Mutable" =>
                \A e \in 1..bindings_[i].count :
                    descriptors[i][e].updated =>
                        objs[sret.val].data[SlotOf(i, e)] =
                            GetInData(descriptors[i][e].active, descriptors[i][e])

(***************************************************************************)
(* Claims about the read-back of the output buffer.                        *)
(***************************************************************************)
\* The threads that are between the maps and the unmaps of UsedDescriptors on
\* State o.
Scanning(o) == {t \in Threads : ud[t].pc = "ud_scan" /\ ud[t].obj = o}

\* C19: a UsedDescriptors call on a State with a buffer has mapped the output
\* buffer and the layout buffer and invalidated the output buffer's allocation
\* before it reads a slot, both stay mapped until its reads are done whatever
\* other calls unmap, and what it returns is decoded from what the device wrote.
C19_InvalidateBeforeRead ==
    /\ [](\A o \in DOMAIN objs :
             /\ objs[o].maps >= Cardinality(Scanning(o))
             /\ \A t \in Scanning(o) :
                   /\ ud[t].invalidated
                   /\ objs[o].allocation
                   /\ layout_.maps > 0)
    /\ [][\A t \in Threads :
             UsedDescriptorsDone(t) =>
                 /\ ud[t].invalidated
                 /\ objs[ud[t].obj].maps > 0 /\ layout_.maps > 0
                 /\ objs'[ud[t].obj].maps = objs[ud[t].obj].maps - 1
                 /\ Decodes(sret'.val, layout_.data, objs[ud[t].obj].data,
                            ud[t].shader_set)]_vars

\* C19 witness: two calls are reading the output buffer after the device wrote
\* a tag into it, and one of them is about to find it.
C19_Witness ==
    /\ output_state_ # NullObj
    /\ Cardinality(Scanning(output_state_)) = 2
    /\ objs[output_state_].maps = 2
    /\ \E t \in Scanning(output_state_) :
          \E k \in DOMAIN objs[output_state_].data :
              objs[output_state_].data[k] = ud[t].shader_set

(***************************************************************************)
(* Claims about the order in which identifiers are issued.                 *)
(***************************************************************************)
\* The k-th candidate of the cyclic order that starts at the cursor:
\* next_id_, next_id_ + 1, ..., max_descriptors_, 1, 2, ...
CyclicAt(k) == ((next_id_ - 1 + k) % max_descriptors_) + 1

\* The candidates before the first one that is not live.
LiveRun == {k \in 0..(max_descriptors_ - 1) :
               \A j \in 0..k : CyclicAt(j) \in DOMAIN alloc_map_}

\* The scan of a NextId call of thread t happens in this step.
NextIdScans(t) == hpc[t] = "next_lock" /\ hpc'[t] = "next_setbit"

\* C20: with capacity C > 0 the cursor is in [1, C]; a NextId call that finds
\* fewer than C live identifiers is not stuck in its scan and examines at most
\* C candidates; it takes the first identifier that is not live in the cyclic
\* order from the cursor and leaves the cursor at its successor, 1 after C; no
\* step of DeleteId moves the cursor.
C20_RotatingScan ==
    /\ [](max_descriptors_ > 0 =>
             /\ next_id_ \in 1..max_descriptors_
             /\ \A t \in Threads :
                   (hpc[t] = "next_lock" /\ ~HeapFull(alloc_map_, max_descriptors_)) =>
                       LET s == Scan(next_id_, DOMAIN alloc_map_, max_descriptors_)
                       IN  ~s.spins /\ s.examined <= max_descriptors_)
    /\ [][\A t \in Threads :
             /\ NextIdScans(t) =>
                   /\ hid'[t] = CyclicAt(Cardinality(LiveRun))
                   /\ hid'[t] \notin DOMAIN alloc_map_
                   /\ \A k \in 0..(Cardinality(LiveRun) - 1) : CyclicAt(k) \in DOMAIN alloc_map_
                   /\ next_id_' = IF hid'[t] = max_descriptors_ THEN 1 ELSE hid'[t] + 1
             /\ (hpc[t] \in {"del_lock", "del_erase"} /\ hpc'[t] # hpc[t]) =>
                   next_id_' = next_id_
             /\ (hpc[t] = "idle" /\ hpc'[t] = "del_lock") => next_id_' = next_id_]_vars

\* C20 witness: with capacity 3, identifiers 1 and 2 were issued and 1 deleted:
\* NextId has returned 3, not the freed 1, and the cursor has wrapped to 1.
C20_Witness ==
    /\ max_descriptors_ = 3
    /\ hevent = Returned("NextId", 3)
    /\ DOMAIN alloc_map_ = {2, 3}
    /\ next_id_ = 1
    /\ \A t \in Threads : hpc[t] = "idle"

(***************************************************************************)
(* Claims about the set's lock.                                            *)
(***************************************************************************)
\* The step is taken by a thread that holds the set's lock: it held it before
\* the step, holds it after, or took and released it within the step (a call
\* that returns at once).
LockedStep ==
    \E t \in Threads :
        \/ set_lock = t
        \/ set_lock' = t
        \/ CanLock(set_lock, t) /\ spc[t] = "idle" /\ sret' # sret
                                /\ sret'.op \in {"GetLayoutState", "GetCurrentState",
                                                 "GetOutputState"}

\* The layout buffer but for the count of its maps.
LayoutContents(buf) == [buf EXCEPT !.maps = 0]

\* C21: the version counter changes only while the set's lock is held, and the
\* snapshot slot, the output slot and the layout buffer change only in steps
\* of a thread that holds it.
C21_LockDiscipline ==
    [][/\ current_version_' # current_version_ => set_lock # NoThread
       /\ (\/ last_used_state_' # last_used_state_
           \/ output_state_' # output_state_
           \/ LayoutContents(layout_') # LayoutContents(layout_)) => LockedStep]_vars

(***************************************************************************)
(* Claims about the snapshot beside the layout.                            *)
(***************************************************************************)
\* The layout buffer GetLayoutState builds for the set's bindings.
LayoutOf(bs) ==
    LayoutFill(LayoutHeader(LayoutBufferSize(NumBindings(bs)), NumBindings(bs)), bs, 1, 0)

\* C22: when GetCurrentState has filled the buffer of a set of bindings of any
\* class, the write index is the record count the buffer was sized with, every
\* slot was written, and the records of each binding are in the slots
\* [state_start, state_start + count) the layout buffer gives for it.
C22_SnapshotMatchesLayout ==
    SnapshotBuilt =>
        LET data == objs[sret.val].data
            n == DescriptorCount(bindings_)
            filled == FillAllBindings(bindings_, descriptors, 1,
                                      [data |-> UninitializedSlots(n), index |-> 0])
            layout == LayoutOf(bindings_)
        IN  /\ filled.index = n
            /\ DOMAIN data = 0..(n - 1)
            /\ \A k \in DOMAIN data : data[k] # Uninitialized
            /\ \A i \in 1..Len(bindings_) :
                  LET b == bindings_[i]
                      at == layout[b.binding + 1]
                  IN  b.descriptor_class # "NoDescriptorClass" =>
                          \A j \in 0..(at.count - 1) :
                              /\ at.state_start + j \in DOMAIN data
                              /\ data[at.state_start + j] =
                                    IF b.descriptor_class = "InlineUniform"
                                    THEN DescriptorState("InlineUniform",
                                                         kDebugInputBindlessSkipId, kU32Max)
                                    ELSE ElementRecord(b.descriptor_class,
                                                       descriptors[i][j + 1])

(***************************************************************************)
(* Claims about the maps of the buffers.                                   *)
(***************************************************************************)
\* The builder calls that are between their map and their unmap.
MappingLayout == {t \in Threads : spc[t] = "gls_flush"}
MappingState(o) ==
    {t \in Threads : /\ spc[t] \in {"gcs_flush", "gcs_unmap", "gos_flush", "gos_unmap"}
                     /\ set_lock = t
                     /\ slocal.next_state = o}

\* No operation on the set is in flight.
NoCallInFlight == \A t \in Threads : spc[t] = "idle" /\ ud[t].pc = "idle"

\* C23: each buffer of the set is mapped once per call that is between its map
\* and its unmap, so none is mapped when no call is in flight; a call that
\* returns at once (cached, empty set, no output buffer) maps nothing; the
\* heap's buffer is mapped exactly while an active heap exists.
C23_MapsBalanced ==
    /\ [](/\ layout_.maps = Cardinality(MappingLayout)
                            + Cardinality({t \in Threads : ud[t].pc = "ud_scan"})
          /\ \A o \in DOMAIN objs :
                objs[o].maps = Cardinality(MappingState(o)) + Cardinality(Scanning(o))
          /\ NoCallInFlight =>
                layout_.maps = 0 /\ \A o \in DOMAIN objs : objs[o].maps = 0
          /\ heap_buffer_.mapped <=> (max_descriptors_ > 0 /\ heap_alive))
    /\ [][(NoCallInFlight /\ NoCallInFlight' /\ sret' # sret) =>
             /\ layout_'.maps = layout_.maps
             /\ \A o \in DOMAIN objs : objs'[o].maps = objs[o].maps
             /\ \A o \in DOMAIN objs' : objs'[o].maps = 0]_vars

\* C23 witness: the three builders and UsedDescriptors have run on a set with a
\* descriptor and NextId on the heap: no buffer of the set is mapped, the
\* heap's buffer is.
C23_Witness ==
    /\ NoCallInFlight
    /\ sret.op = "UsedDescriptors"
    /\ layout_.allocation /\ layout_.maps = 0
    /\ last_used_state_ # NullObj /\ output_state_ # NullObj
    /\ objs[last_used_state_].allocation /\ objs[last_used_state_].maps = 0
    /\ objs[output_state_].allocation /\ objs[output_state_].maps = 0
    /\ hevent = Returned("NextId", 1)
    /\ heap_buffer_.mapped

====
